---------------------------- MODULE Spec2Model ----------------------------
(***************************************************************************)
(* A model of the rule-driven engine of the CATSDK editors:                *)
(*   - CatLLM (src/#########catsdkv0.py): pattern-dispatched code          *)
(*     completion, keyword-classified chat, the shared history and the     *)
(*     thinking flag, with the CatCode host that calls it from the UI      *)
(*     thread and from one background thread per chat message;             *)
(*   - RalphAgent (src/##CATSDK.py): the goal/step loop of the agent.      *)
(*                                                                         *)
(* Text is modelled by TLA+ strings, on which TLC evaluates Len, \o,       *)
(* SubSeq, Head and Tail.  The text the engine inspects is over the        *)
(* characters U+0000 to U+00FF, which the TLA+ lexer accepts inside a      *)
(* string (all but the backtick); the character tables below are Python's  *)
(* str.isspace, str.isalnum and str.lower on that range.  Characters the   *)
(* lexer does not accept are written as their Python escapes: the backtick *)
(* as \x60 and a character above U+00FF as \uXXXX or \UXXXXXXXX.  Such     *)
(* characters only occur in fixed output texts.                            *)
(***************************************************************************)
EXTENDS Integers, Sequences, FiniteSets, TLC

VARIABLES
    \* ---- CatLLM ----
    context,        \* self.context: the chat history, a sequence of turns
    thinking,       \* self.thinking
    kwOrder,        \* the order the process iterates self.python_keywords in
    \* ---- CatCode, the host of CatLLM ----
    ui,             \* the foreground (UI) thread: idle, or inside complete
    suggestions,    \* check_completion's local: the value complete returned
    workers,        \* the threads send_chat started, in the order of the calls
    afterQueue,     \* the callbacks handed to root.after(0, ...), oldest first
    chat_display,   \* the messages shown in the chat panel, in order
    \* ---- RalphAgent and its panels ----
    running,            \* self.running
    current_goal_idx,   \* self.current_goal_idx
    agent,              \* where the agent thread stands in run_loop
    editor_text,        \* EditorPanel.text_area
    tab_label,          \* EditorPanel.tab_label
    status_bar,         \* EditorPanel.status_bar
    term_text,          \* TerminalPanel.term_text, one entry per log call
    chat_history,       \* ChatPanel.history, one entry per message
    \* ---- history variables of the agent, read by the properties only ----
    stepsStarted,       \* the steps begun so far, as <<goal, step>> pairs
    stepsFinished,      \* how many of them have finished
    typedAfterStop      \* characters appended since running was cleared

llmVars == <<context, thinking, kwOrder, ui, suggestions, workers,
             afterQueue, chat_display>>

agentVars == <<running, current_goal_idx, agent, editor_text, tab_label,
               status_bar, term_text, chat_history, stepsStarted,
               stepsFinished, typedAfterStop>>

vars == <<llmVars, agentVars>>

---------------------------------------------------------------------------
(* Text helpers: str.strip, str.lower, str.split, str.startswith, "in".    *)

\* the letters that have two cases, a to z and U+00E0 to U+00FE (without
\* U+00F7), and at the same index of UpperLetters what str.upper makes of
\* each: A to Z and U+00C0 to U+00DE (without U+00D7)
LowerLetters == "abcdefghijklmnopqrstuvwxyzàáâãäåæçèéêëìíîïðñòóôõöøùúûüýþ"
UpperLetters == "ABCDEFGHIJKLMNOPQRSTUVWXYZÀÁÂÃÄÅÆÇÈÉÊËÌÍÎÏÐÑÒÓÔÕÖØÙÚÛÜÝÞ"
Digits == "0123456789"
\* the other characters with str.isalnum: the letters without an upper
\* case of their own in the range (U+00AA, U+00B5, U+00BA, U+00DF, U+00FF)
\* and the numeric characters U+00B2, U+00B3, U+00B9, U+00BC to U+00BE
OtherAlnum == "ª²³µ¹º¼½¾ßÿ"

Char(s, i) == SubSeq(s, i, i)

CharsOf(s) == {Char(s, i) : i \in 1..Len(s)}

LowerSet == CharsOf(LowerLetters)
UpperSet == CharsOf(UpperLetters)
DigitSet == CharsOf(Digits)

\* str.isspace and the regular expression class \s of a str pattern: the
\* space, tab, line feed, carriage return and form feed, the vertical tab
\* U+000B, the separators U+001C to U+001F, the next-line character U+0085
\* and the no-break space U+00A0
SpaceChars ==
    {" ", "\t", "\n", "\r", "\f", "", "", "", "", "",
     "", " "}
IsSpace(c) == c \in SpaceChars

\* the regular expression class \w of a str pattern: str.isalnum and the
\* underscore
WordChars ==
    LowerSet \cup UpperSet \cup DigitSet \cup CharsOf(OtherAlnum) \cup {"_"}
IsWordChar(c) == c \in WordChars

\* str.lower on one character
ToLower ==
    [c \in UpperSet |->
        Char(LowerLetters,
             CHOOSE i \in 1..Len(UpperLetters) : Char(UpperLetters, i) = c)]

LowerChar(c) == IF c \in UpperSet THEN ToLower[c] ELSE c

RECURSIVE Lower(_)
Lower(s) ==
    IF Len(s) = 0 THEN ""
    ELSE IF Len(s) = 1 THEN LowerChar(s)
    ELSE LET h == Len(s) \div 2
         IN  Lower(SubSeq(s, 1, h)) \o Lower(SubSeq(s, h + 1, Len(s)))

RECURSIVE LStrip(_)
LStrip(s) == IF s # "" /\ IsSpace(Head(s)) THEN LStrip(Tail(s)) ELSE s

RECURSIVE RStrip(_)
RStrip(s) ==
    IF s # "" /\ IsSpace(Char(s, Len(s)))
    THEN RStrip(SubSeq(s, 1, Len(s) - 1))
    ELSE s

Strip(s) == RStrip(LStrip(s))

\* whether the literal lit stands in s at index i
LitAt(s, i, lit) ==
    /\ i >= 1
    /\ i + Len(lit) - 1 <= Len(s)
    /\ SubSeq(s, i, i + Len(lit) - 1) = lit

StartsWith(s, prefix) == LitAt(s, 1, prefix)

\* Python's substring test, needle in s
Contains(s, needle) == \E i \in 1..(Len(s) - Len(needle) + 1) : LitAt(s, i, needle)

\* the index after the longest run of whitespace (of word characters) from i
RECURSIVE SpanSpace(_, _)
SpanSpace(s, i) ==
    IF i <= Len(s) /\ IsSpace(Char(s, i)) THEN SpanSpace(s, i + 1) ELSE i

RECURSIVE SpanWord(_, _)
SpanWord(s, i) ==
    IF i <= Len(s) /\ IsWordChar(Char(s, i)) THEN SpanWord(s, i + 1) ELSE i

RECURSIVE SpanNonSpace(_, _)
SpanNonSpace(s, i) ==
    IF i <= Len(s) /\ ~IsSpace(Char(s, i)) THEN SpanNonSpace(s, i + 1) ELSE i

\* str.split(): the maximal runs of non-whitespace, from index i on
RECURSIVE SplitFrom(_, _)
SplitFrom(s, i) ==
    LET b == SpanSpace(s, i)
        e == SpanNonSpace(s, b)
    IN  IF b > Len(s) THEN <<>>
        ELSE <<SubSeq(s, b, e - 1)>> \o SplitFrom(s, e)

Split(s) == SplitFrom(s, 1)

\* a list slice xs[:n]
Take(xs, n) == SubSeq(xs, 1, IF Len(xs) < n THEN Len(xs) ELSE n)

\* a list comprehension [x for x in xs if x.startswith(prefix)]
RECURSIVE FilterPrefix(_, _)
FilterPrefix(xs, prefix) ==
    IF xs = <<>> THEN <<>>
    ELSE (IF StartsWith(Head(xs), prefix) THEN <<Head(xs)>> ELSE <<>>)
            \o FilterPrefix(Tail(xs), prefix)

---------------------------------------------------------------------------
(* CatLLM._init_python_knowledge: the static tables.                       *)

\* self.python_keywords, in the order the set literal is written.  The
\* table is a Python set of strings: the order a loop visits it in depends
\* on the process's string hashing, so it is kwOrder, fixed per process.
PythonKeywords ==
    <<"def", "class", "if", "elif", "else", "for", "while", "try",
      "except", "finally", "with", "as", "import", "from", "return",
      "yield", "raise", "pass", "break", "continue", "lambda", "async",
      "await", "global", "nonlocal", "assert", "del", "in", "is", "not",
      "and", "or", "True", "False", "None">>

\* the keys of self.builtin_functions, a dict: insertion order
BuiltinFunctions ==
    <<"print", "len", "range", "str", "int", "float", "list", "dict",
      "set", "open", "input", "type", "isinstance", "enumerate", "zip",
      "map", "filter", "sorted", "sum", "min", "max", "abs", "round">>

\* the keys of self.common_imports, a dict: insertion order
CommonImportNames ==
    <<"os", "sys", "json", "math", "random", "datetime", "re",
      "collections", "pathlib", "typing", "tkinter", "pygame">>

CommonImports(module) ==
    CASE module = "os" -> <<"path", "getcwd", "listdir", "mkdir", "remove", "environ">>
      [] module = "sys" -> <<"argv", "exit", "path", "version", "platform">>
      [] module = "json" -> <<"load", "loads", "dump", "dumps">>
      [] module = "math" -> <<"sqrt", "sin", "cos", "tan", "pi", "e", "floor", "ceil">>
      [] module = "random" -> <<"random", "randint", "choice", "shuffle", "sample">>
      [] module = "datetime" -> <<"datetime", "date", "time", "timedelta">>
      [] module = "re" -> <<"match", "search", "findall", "sub", "compile">>
      [] module = "collections" -> <<"defaultdict", "Counter", "deque", "namedtuple">>
      [] module = "pathlib" -> <<"Path">>
      [] module = "typing" -> <<"List", "Dict", "Tuple", "Optional", "Union", "Any">>
      [] module = "tkinter" -> <<"Tk", "Frame", "Label", "Button", "Entry", "Text">>
      [] module = "pygame" -> <<"init", "display", "event", "draw", "sprite">>

SeqToSet(xs) == {xs[i] : i \in 1..Len(xs)}

\* Python's comparison of two ASCII lower-case words, a < b
RECURSIVE StrLess(_, _)
StrLess(a, b) ==
    IF b = "" THEN FALSE
    ELSE IF a = "" THEN TRUE
    ELSE LET ia == CHOOSE i \in 1..26 : Char(LowerLetters, i) = Head(a)
             ib == CHOOSE i \in 1..26 : Char(LowerLetters, i) = Head(b)
         IN  IF ia # ib THEN ia < ib ELSE StrLess(Tail(a), Tail(b))

\* sorted(xs) for a list of distinct lower-case words
RECURSIVE Sorted(_)
Sorted(xs) ==
    IF xs = <<>> THEN <<>>
    ELSE LET S == SeqToSet(xs)
             m == CHOOSE x \in S : \A y \in S \ {x} : StrLess(x, y)
             RECURSIVE Without(_)
             Without(ys) ==
                 IF ys = <<>> THEN <<>>
                 ELSE (IF Head(ys) = m THEN <<>> ELSE <<Head(ys)>>)
                        \o Without(Tail(ys))
         IN  <<m>> \o Sorted(Without(xs))

---------------------------------------------------------------------------
(* The trigger patterns of CatLLM._init_code_templates, each as re.match   *)
(* applies it: anchored at the start of the line.  A match is the tuple of *)
(* its groups (len = match.lastindex); every class that follows a greedy   *)
(* run is disjoint from the run's class, so greedy matching is exact.      *)

NoMatch == [ok |-> FALSE, groups |-> <<>>]
Match(gs) == [ok |-> TRUE, groups |-> gs]

\* the anchor $: the end of the text, or just before a final line break
AtEnd(s, i) == i = Len(s) + 1 \/ (i = Len(s) /\ Char(s, i) = "\n")

\* ^def\s+(\w+)\s*\($
MatchDef(line) ==
    LET b == SpanSpace(line, 4)
        c == SpanWord(line, b)
        d == SpanSpace(line, c)
    IN  IF LitAt(line, 1, "def") /\ b > 4 /\ c > b
            /\ LitAt(line, d, "(") /\ AtEnd(line, d + 1)
        THEN Match(<<SubSeq(line, b, c - 1)>>)
        ELSE NoMatch

\* ^class\s+(\w+)
MatchClass(line) ==
    LET b == SpanSpace(line, 6)
        c == SpanWord(line, b)
    IN  IF LitAt(line, 1, "class") /\ b > 6 /\ c > b
        THEN Match(<<SubSeq(line, b, c - 1)>>)
        ELSE NoMatch

\* ^import\s+(\w*)$
MatchImport(line) ==
    LET b == SpanSpace(line, 7)
        c == SpanWord(line, b)
    IN  IF LitAt(line, 1, "import") /\ b > 7 /\ AtEnd(line, c)
        THEN Match(<<SubSeq(line, b, c - 1)>>)
        ELSE NoMatch

\* ^from\s+(\w+)\s+import\s*(\w*)$
MatchFromImport(line) ==
    LET b == SpanSpace(line, 5)
        c == SpanWord(line, b)
        d == SpanSpace(line, c)
        e == d + 6
        f == SpanSpace(line, e)
        g == SpanWord(line, f)
    IN  IF LitAt(line, 1, "from") /\ b > 5 /\ c > b /\ d > c
            /\ LitAt(line, d, "import") /\ AtEnd(line, g)
        THEN Match(<<SubSeq(line, b, c - 1), SubSeq(line, f, g - 1)>>)
        ELSE NoMatch

\* ^if\s+
MatchIf(line) ==
    IF LitAt(line, 1, "if") /\ SpanSpace(line, 3) > 3 THEN Match(<<>>) ELSE NoMatch

\* ^for\s+(\w+)\s+in\s+
MatchFor(line) ==
    LET b == SpanSpace(line, 4)
        c == SpanWord(line, b)
        d == SpanSpace(line, c)
    IN  IF LitAt(line, 1, "for") /\ b > 4 /\ c > b /\ d > c
            /\ LitAt(line, d, "in") /\ SpanSpace(line, d + 2) > d + 2
        THEN Match(<<SubSeq(line, b, c - 1)>>)
        ELSE NoMatch

\* ^while\s+
MatchWhile(line) ==
    IF LitAt(line, 1, "while") /\ SpanSpace(line, 6) > 6 THEN Match(<<>>) ELSE NoMatch

\* ^try:\s*$
MatchTry(line) ==
    IF LitAt(line, 1, "try:") /\ SpanSpace(line, 5) = Len(line) + 1
    THEN Match(<<>>) ELSE NoMatch

\* ^with\s+
MatchWith(line) ==
    IF LitAt(line, 1, "with") /\ SpanSpace(line, 5) > 5 THEN Match(<<>>) ELSE NoMatch

\* ^print\($
MatchPrint(line) ==
    IF LitAt(line, 1, "print(") /\ AtEnd(line, 7) THEN Match(<<>>) ELSE NoMatch

\* (\w+)\.\s*$
MatchAttribute(line) ==
    LET b == SpanWord(line, 1)
    IN  IF b > 1 /\ LitAt(line, b, ".") /\ SpanSpace(line, b + 1) = Len(line) + 1
        THEN Match(<<SubSeq(line, 1, b - 1)>>)
        ELSE NoMatch

\* ^#\s*
MatchComment(line) ==
    IF LitAt(line, 1, "#") THEN Match(<<>>) ELSE NoMatch

---------------------------------------------------------------------------
(* The completion handlers.  m is the match (its groups), and every        *)
(* handler ignores the code context it is given.                           *)

\* match.group(1) if match.lastindex else default
Group1Or(m, default) == IF Len(m.groups) > 0 THEN m.groups[1] ELSE default

\* [mutant of _complete_function_def] the "set" test placed before the
\* "get" test
function_def_set_first(m, code_context) ==
    LET func_name == Lower(Group1Or(m, "func"))
    IN  IF Contains(func_name, "init")
        THEN <<"self):\n        pass",
               "self, name, value):\n        self.name = name\n        self.value = value">>
        ELSE IF Contains(func_name, "set")
        THEN <<"self, key, value):\n        self._data[key] = value">>
        ELSE IF Contains(func_name, "get")
        THEN <<"self, key):\n        return self._data.get(key)">>
        ELSE IF Contains(func_name, "is_") \/ Contains(func_name, "has_")
        THEN <<"self):\n        return bool(self._value)">>
        ELSE IF Contains(func_name, "load")
        THEN <<"filename):\n        with open(filename, 'r') as f:\n            return f.read()">>
        ELSE IF Contains(func_name, "save")
        THEN <<"data, filename):\n        with open(filename, 'w') as f:\n            f.write(data)">>
        ELSE IF Contains(func_name, "main")
        THEN <<"):\n        print('Hello, World!')\n\n\nif __name__ == '__main__':\n    main()">>
        ELSE <<"):\n        pass",
               "arg1, arg2):\n        return arg1 + arg2",
               "*args, **kwargs):\n        pass">>

_complete_function_def(m, code_context) ==
    LET func_name == Lower(Group1Or(m, "func"))
    IN  IF Contains(func_name, "init")
        THEN <<"self):\n        pass",
               "self, name, value):\n        self.name = name\n        self.value = value">>
        ELSE IF Contains(func_name, "get")
        THEN <<"self, key):\n        return self._data.get(key)">>
        ELSE IF Contains(func_name, "set")
        THEN <<"self, key, value):\n        self._data[key] = value">>
        ELSE IF Contains(func_name, "is_") \/ Contains(func_name, "has_")
        THEN <<"self):\n        return bool(self._value)">>
        ELSE IF Contains(func_name, "load")
        THEN <<"filename):\n        with open(filename, 'r') as f:\n            return f.read()">>
        ELSE IF Contains(func_name, "save")
        THEN <<"data, filename):\n        with open(filename, 'w') as f:\n            f.write(data)">>
        ELSE IF Contains(func_name, "main")
        THEN <<"):\n        print('Hello, World!')\n\n\nif __name__ == '__main__':\n    main()">>
        ELSE <<"):\n        pass",
               "arg1, arg2):\n        return arg1 + arg2",
               "*args, **kwargs):\n        pass">>

_complete_class_def(m, code_context) ==
    LET class_name == Group1Or(m, "MyClass")
    IN  <<":\n    \"\"\"A " \o class_name
              \o " class.\"\"\"\n    \n    def __init__(self):\n        pass",
          ":\n    def __init__(self, name):\n        self.name = name\n    \n    def __repr__(self):\n        return f\""
              \o class_name \o "({self.name})\"">>

\* [mutant of _complete_import] the keys taken in the table's order, not sorted
complete_import_table_order(m, code_context) ==
    LET partial == Group1Or(m, "")
    IN  Take(FilterPrefix(CommonImportNames, partial), 8)

_complete_import(m, code_context) ==
    LET partial == Group1Or(m, "")
    IN  Take(FilterPrefix(Sorted(CommonImportNames), partial), 8)

_complete_from_import(m, code_context) ==
    LET module == m.groups[1]
        partial == IF Len(m.groups) > 1 THEN m.groups[2] ELSE ""
    IN  IF module \in SeqToSet(CommonImportNames)
        THEN FilterPrefix(CommonImports(module), partial)
        ELSE <<>>

_complete_if(m, code_context) ==
    <<"condition:\n        pass",
      "x is not None:\n        pass",
      "len(items) > 0:\n        pass">>

_complete_for(m, code_context) ==
    LET var == Group1Or(m, "item")
    IN  <<"\n        print(" \o var \o ")",
          "\n        result.append(" \o var \o ")">>

_complete_while(m, code_context) ==
    <<"True:\n        pass", "condition:\n        break">>

_complete_try(m, code_context) ==
    <<"\n        pass\n    except Exception as e:\n        print(f\"Error: {e}\")">>

_complete_with(m, code_context) ==
    <<"open(filename, 'r') as f:\n        content = f.read()">>

_complete_print(m, code_context) ==
    <<"\"Hello, World!\")", "f\"Value: {value}\")", "*args, sep=\", \")">>

_complete_attribute(m, code_context) ==
    LET obj == Lower(m.groups[1])
    IN  CASE obj = "self" -> <<"_data", "_cache", "__init__", "__str__">>
          [] obj = "str" -> <<"strip()", "split()", "join()", "replace()", "lower()", "upper()">>
          [] obj = "list" -> <<"append()", "extend()", "pop()", "remove()", "sort()">>
          [] obj = "dict" -> <<"get()", "keys()", "values()", "items()", "update()">>
          [] obj = "os" -> <<"path", "getcwd()", "listdir()", "mkdir()">>
          [] obj = "path" -> <<"exists()", "join()", "dirname()", "basename()">>
          [] obj = "f" -> <<"read()", "write()", "readline()", "close()">>
          [] OTHER -> <<"__class__", "__dict__">>

_complete_comment(m, code_context) ==
    <<"TODO: ", "FIXME: ", "NOTE: ", "Initialize ", "Handle ", "Process ">>

\* [f"{b}()" for b in xs]
RECURSIVE WithCallMarker(_)
WithCallMarker(xs) ==
    IF xs = <<>> THEN <<>> ELSE <<Head(xs) \o "()">> \o WithCallMarker(Tail(xs))

\* [mutant of TakesLastWord] words[-1] taken without the test
TakesLastWordAlways(words) == TRUE

\* words[-1] if words else "", line 650: the test that guards the index
TakesLastWord(words) == words # <<>>

\* words[-1] on an empty list raises IndexError
generic_raises(line) ==
    LET words == Split(line)
    IN  TakesLastWord(words) /\ words = <<>>

\* keywords is self.python_keywords in the order the process iterates it
_complete_generic(line, code_context, keywords) ==
    LET words == Split(line)
        current == IF TakesLastWord(words) /\ words # <<>>
                   THEN words[Len(words)] ELSE ""
    IN  FilterPrefix(keywords, Lower(current))
            \o WithCallMarker(FilterPrefix(BuiltinFunctions, Lower(current)))

---------------------------------------------------------------------------
(* CatLLM.complete: the dispatch over self.patterns, a dict, in insertion  *)
(* order; the first pattern that matches decides.                          *)

NumPatterns == 12

MatchPattern(k, line) ==
    CASE k = 1 -> MatchDef(line)
      [] k = 2 -> MatchClass(line)
      [] k = 3 -> MatchImport(line)
      [] k = 4 -> MatchFromImport(line)
      [] k = 5 -> MatchIf(line)
      [] k = 6 -> MatchFor(line)
      [] k = 7 -> MatchWhile(line)
      [] k = 8 -> MatchTry(line)
      [] k = 9 -> MatchWith(line)
      [] k = 10 -> MatchPrint(line)
      [] k = 11 -> MatchAttribute(line)
      [] k = 12 -> MatchComment(line)

Handler(k, m, code_context) ==
    CASE k = 1 -> _complete_function_def(m, code_context)
      [] k = 2 -> _complete_class_def(m, code_context)
      [] k = 3 -> _complete_import(m, code_context)
      [] k = 4 -> _complete_from_import(m, code_context)
      [] k = 5 -> _complete_if(m, code_context)
      [] k = 6 -> _complete_for(m, code_context)
      [] k = 7 -> _complete_while(m, code_context)
      [] k = 8 -> _complete_try(m, code_context)
      [] k = 9 -> _complete_with(m, code_context)
      [] k = 10 -> _complete_print(m, code_context)
      [] k = 11 -> _complete_attribute(m, code_context)
      [] k = 12 -> _complete_comment(m, code_context)

\* the patterns that match the line, and the one the loop stops at
Matching(line) == {k \in 1..NumPatterns : MatchPattern(k, line).ok}

FirstMatch(line) ==
    CHOOSE k \in Matching(line) : \A j \in Matching(line) : k <= j

\* [mutant of Truncate] the slice left out: return suggestions
TruncateNone(xs) == xs

\* suggestions[:8]
Truncate(xs) == Take(xs, 8)

\* [mutant of complete] the fallback test left out: the result of the
\* matched handler is returned also when it is empty
complete_without_empty_fallback(code_context, cursor_line, cursor_col, keywords) ==
    LET current_line == Strip(cursor_line)
    IN  IF Matching(current_line) # {}
        THEN Truncate(Handler(FirstMatch(current_line),
                              MatchPattern(FirstMatch(current_line), current_line),
                              code_context))
        ELSE Truncate(_complete_generic(current_line, code_context, keywords))

\* the value complete returns (lines 542-555); keywords is the iteration
\* order of self.python_keywords
complete(code_context, cursor_line, cursor_col, keywords) ==
    LET current_line == Strip(cursor_line)
        matched == IF Matching(current_line) # {}
                   THEN Handler(FirstMatch(current_line),
                                MatchPattern(FirstMatch(current_line), current_line),
                                code_context)
                   ELSE <<>>
        found == IF matched = <<>>
                 THEN _complete_generic(current_line, code_context, keywords)
                 ELSE matched
    IN  Truncate(found)

\* the handlers that read a group without testing match.lastindex:
\* _complete_from_import compares it with 1 (line 597) and
\* _complete_attribute lower-cases group 1 (line 633); both raise on a
\* match without groups
handler_raises(k, m) == k \in {4, 11} /\ Len(m.groups) = 0

\* whether the call ends in an exception instead of returning
complete_raises(code_context, cursor_line, cursor_col) ==
    LET current_line == Strip(cursor_line)
    IN  IF Matching(current_line) # {}
        THEN LET k == FirstMatch(current_line)
                 m == MatchPattern(k, current_line)
             IN  \/ handler_raises(k, m)
                 \/ (~handler_raises(k, m) /\ Handler(k, m, code_context) = <<>>
                        /\ generic_raises(current_line))
        ELSE generic_raises(current_line)

---------------------------------------------------------------------------
(* CatLLM._init_chat_responses: the fixed texts of the chat rules.         *)

Cat == "\\U0001F431"
Bullet == "\\u2022"
Fence == "\\x60\\x60\\x60"

greetings ==
    <<"Meow! \\U0001F431 How can I help you code today?",
      "Hey there! Cat Copilot ready to help~ nyaa~",
      "*stretches paws* Ready for some purr-fect code!",
      "Mrow! What are we building today?",
      "\\U0001F431 CatLLM online! Let's code something awesome~">>

\* the tokens of the greeting rule (line 683)
GreetingTokens == <<"hello", "hi", "hey", "meow", "sup">>

\* the keys of self.explanations, in insertion order
ConceptNames == <<"function", "class", "loop", "list", "dict", "exception", "import">>

explanations(concept) ==
    CASE concept = "function" ->
            "A function is a reusable block of code. Define with \\x60def name(args):\\x60"
      [] concept = "class" ->
            "A class bundles data and methods. Define with \\x60class Name:\\x60"
      [] concept = "loop" ->
            "Loops repeat code. \\x60for\\x60 iterates, \\x60while\\x60 repeats until false."
      [] concept = "list" ->
            "Lists are ordered collections. Create with \\x60[]\\x60, access by index."
      [] concept = "dict" ->
            "Dicts store key-value pairs. Create with \\x60{}\\x60, access by key."
      [] concept = "exception" ->
            "Handle errors with \\x60try/except\\x60 to avoid crashes."
      [] concept = "import" ->
            "Imports bring in external code. \\x60import x\\x60 or \\x60from x import y\\x60"

\* the keys of self.error_help, in insertion order
ErrorNames ==
    <<"SyntaxError", "NameError", "TypeError", "IndexError", "KeyError",
      "AttributeError", "ImportError", "IndentationError">>

error_help(err) ==
    CASE err = "SyntaxError" -> "Check colons, parentheses, quotes, and indentation!"
      [] err = "NameError" -> "Variable/function not defined. Check spelling or imports."
      [] err = "TypeError" -> "Wrong type. Check if mixing strings/numbers."
      [] err = "IndexError" -> "Index out of range. Lists start at 0!"
      [] err = "KeyError" -> "Key not in dict. Use \\x60.get(key, default)\\x60."
      [] err = "AttributeError" -> "Object doesn't have that attribute/method."
      [] err = "ImportError" -> "Module not found. Check name and installation."
      [] err = "IndentationError" -> "Use consistent indentation (4 spaces)."

\* the pool of the last rule (lines 712-716)
FallbackResponses ==
    <<"\\U0001F431 Tell me more about what you're building!",
      "\\U0001F431 I can help with code completion, explanations, and debugging!",
      "\\U0001F431 What would you like to code today?">>

---------------------------------------------------------------------------
(* The chat rules.                                                         *)

\* any(w in msg for w in words)
ContainsAny(msg, words) == \E i \in 1..Len(words) : Contains(msg, words[i])

\* str.split('\n'): the pieces between line breaks, empty pieces included
\* the index of the first line break from i on, or Len(s) + 1
NextBreak(s, i) ==
    IF \E j \in i..Len(s) : Char(s, j) = "\n"
    THEN CHOOSE j \in i..Len(s) :
             Char(s, j) = "\n" /\ \A k \in i..(j - 1) : Char(s, k) # "\n"
    ELSE Len(s) + 1

RECURSIVE SplitLinesFrom(_, _, _)
SplitLinesFrom(s, start, i) ==
    LET j == NextBreak(s, i)
    IN  IF j > Len(s) THEN <<SubSeq(s, start, Len(s))>>
        ELSE <<SubSeq(s, start, j - 1)>> \o SplitLinesFrom(s, j + 1, j + 1)

SplitLines(s) == SplitLinesFrom(s, 1, 1)

\* re.match(r'def\s+(\w+)', line) and re.match(r'class\s+(\w+)', line):
\* the name after the keyword kw, or no match
MatchNameAfter(kw, line) ==
    LET a == Len(kw) + 1
        b == SpanSpace(line, a)
        c == SpanWord(line, b)
    IN  IF LitAt(line, 1, kw) /\ b > a /\ c > b
        THEN Match(<<SubSeq(line, b, c - 1)>>)
        ELSE NoMatch

\* what one line adds to the explanation (lines 724-735)
ExplainLine(raw) ==
    LET line == Strip(raw)
    IN  IF StartsWith(line, "def ")
        THEN (IF MatchNameAfter("def", line).ok
              THEN Bullet \o " Function \\x60" \o MatchNameAfter("def", line).groups[1]
                        \o "\\x60\n"
              ELSE "")
        ELSE IF StartsWith(line, "class ")
        THEN (IF MatchNameAfter("class", line).ok
              THEN Bullet \o " Class \\x60" \o MatchNameAfter("class", line).groups[1]
                        \o "\\x60\n"
              ELSE "")
        ELSE IF StartsWith(line, "import ") \/ StartsWith(line, "from ")
        THEN Bullet \o " Import: \\x60" \o line \o "\\x60\n"
        ELSE IF StartsWith(line, "if ") THEN Bullet \o " Conditional\n"
        ELSE IF StartsWith(line, "for ") \/ StartsWith(line, "while ")
        THEN Bullet \o " Loop\n"
        ELSE IF StartsWith(line, "return ") THEN Bullet \o " Return statement\n"
        ELSE ""

RECURSIVE ExplainLines(_)
ExplainLines(ls) ==
    IF ls = <<>> THEN "" ELSE ExplainLine(Head(ls)) \o ExplainLines(Tail(ls))

\* the lines the explanation looks at: code.strip().split('\n')[:8]
ExplainedLines(code) == Take(SplitLines(Strip(code)), 8)

_explain_code(code) ==
    IF Strip(code) = ""
    THEN Cat \o " Paste some code and I'll explain it!"
    ELSE Cat \o " Here's what I see:\n\n" \o ExplainLines(ExplainedLines(code))
            \o "\nAsk me about any part! " \o Cat

_suggest_fix(code) ==
    Cat \o " Quick debugging checklist:\n\n1. Balanced parentheses/brackets?\n2. Correct indentation (4 spaces)?\n3. Variables defined before use?\n4. Typos in names?\n5. Right data types?\n\nPaste your error message for specific help! "
        \o Cat

_how_to(message) ==
    LET msg == Lower(message)
    IN  IF Contains(msg, "read") /\ Contains(msg, "file")
        THEN Cat \o " Read a file:\n\n" \o Fence
                \o "python\nwith open('file.txt', 'r') as f:\n    content = f.read()\n"
                \o Fence
        ELSE IF Contains(msg, "write") /\ Contains(msg, "file")
        THEN Cat \o " Write a file:\n\n" \o Fence
                \o "python\nwith open('file.txt', 'w') as f:\n    f.write('Hello!')\n"
                \o Fence
        ELSE IF Contains(msg, "list")
        THEN Cat \o " Lists:\n\n" \o Fence
                \o "python\nmy_list = [1, 2, 3]\nmy_list.append(4)\nmy_list[0]  # First item\n"
                \o Fence
        ELSE IF Contains(msg, "dict")
        THEN Cat \o " Dicts:\n\n" \o Fence
                \o "python\nd = {'key': 'value'}\nd['new'] = 'item'\nd.get('key', 'default')\n"
                \o Fence
        ELSE IF Contains(msg, "loop")
        THEN Cat \o " Loops:\n\n" \o Fence
                \o "python\nfor item in collection:\n    print(item)\n\nfor i, item in enumerate(collection):\n    print(i, item)\n"
                \o Fence
        ELSE Cat \o " What specifically would you like to know how to do?"

_generate_code(message) ==
    LET msg == Lower(message)
    IN  IF Contains(msg, "hello")
        THEN Cat \o " Here you go:\n\n" \o Fence
                \o "python\nprint(\"Hello, World!\")\n" \o Fence
        ELSE IF Contains(msg, "game")
        THEN Cat \o " Simple game:\n\n" \o Fence
                \o "python\nimport random\n\nnumber = random.randint(1, 100)\nwhile True:\n    guess = int(input(\"Guess: \"))\n    if guess == number:\n        print(\"You win! \\U0001F389\")\n        break\n    print(\"Higher!\" if guess < number else \"Lower!\")\n"
                \o Fence
        ELSE Cat \o " Tell me more about what you want to build!"

\* [mutant of MatchingNames] the key compared as written, not lower-cased
MatchingNamesAsWritten(msg, names) == {i \in 1..Len(names) : Contains(msg, names[i])}

\* the keys of a table that the lower-cased message names (lines 687-688
\* and 692-693)
MatchingNames(msg, names) == {i \in 1..Len(names) : Contains(msg, Lower(names[i]))}

\* the first of them in the table's order
FirstName(msg, names) ==
    names[CHOOSE i \in MatchingNames(msg, names) :
                \A j \in MatchingNames(msg, names) : i <= j]

\* the error rule's answer (lines 687-689)
ErrorResponse(err) == Cat \o " " \o err \o "? " \o error_help(err)

\* [mutant of _generate_response] the concept rule placed before the error
\* rule
generate_response_concept_first(message, code_context) ==
    LET msg == Lower(message)
    IN  IF ContainsAny(msg, GreetingTokens) THEN SeqToSet(greetings)
        ELSE IF MatchingNames(msg, ConceptNames) # {}
        THEN {Cat \o " " \o explanations(FirstName(msg, ConceptNames))}
        ELSE IF MatchingNames(msg, ErrorNames) # {}
        THEN {ErrorResponse(FirstName(msg, ErrorNames))}
        ELSE IF Contains(msg, "explain") \/ Contains(msg, "what does")
        THEN {_explain_code(code_context)}
        ELSE IF ContainsAny(msg, <<"fix", "help", "error", "bug">>)
        THEN {_suggest_fix(code_context)}
        ELSE IF Contains(msg, "how to") \/ Contains(msg, "how do")
        THEN {_how_to(message)}
        ELSE IF ContainsAny(msg, <<"write", "create", "make", "generate">>)
        THEN {_generate_code(message)}
        ELSE SeqToSet(FallbackResponses)

\* CatLLM._generate_response: the set of strings the call can return.  The
\* greeting rule and the last rule draw with random.choice from a pool;
\* every other rule returns one string.
_generate_response(message, code_context) ==
    LET msg == Lower(message)
    IN  IF ContainsAny(msg, GreetingTokens) THEN SeqToSet(greetings)
        ELSE IF MatchingNames(msg, ErrorNames) # {}
        THEN {ErrorResponse(FirstName(msg, ErrorNames))}
        ELSE IF MatchingNames(msg, ConceptNames) # {}
        THEN {Cat \o " " \o explanations(FirstName(msg, ConceptNames))}
        ELSE IF Contains(msg, "explain") \/ Contains(msg, "what does")
        THEN {_explain_code(code_context)}
        ELSE IF ContainsAny(msg, <<"fix", "help", "error", "bug">>)
        THEN {_suggest_fix(code_context)}
        ELSE IF Contains(msg, "how to") \/ Contains(msg, "how do")
        THEN {_how_to(message)}
        ELSE IF ContainsAny(msg, <<"write", "create", "make", "generate">>)
        THEN {_generate_code(message)}
        ELSE SeqToSet(FallbackResponses)

---------------------------------------------------------------------------
(* The state of CatLLM and of its host CatCode, and the inputs the host    *)
(* hands to the engine.                                                    *)

Turn(role, content) == [role |-> role, content |-> content]

\* Orders in which a process may iterate the keyword set (lines 428 and
\* 653): the slots of a set follow the hashes of its strings, and these
\* follow the seed of the process, so the order is any arrangement of the
\* 35 keywords.
KeywordOrders ==
    {order \in [1..Len(PythonKeywords) -> SeqToSet(PythonKeywords)] :
        \A i, j \in 1..Len(PythonKeywords) : order[i] = order[j] => i = j}

\* the orders of three processes of CPython 3.11, those started with
\* PYTHONHASHSEED = 0, 1 and 2
HashSeedOrders ==
    <<
      <<"def", "return", "continue", "as", "pass", "assert", "except",
        "None", "in", "yield", "break", "global", "and", "else", "False",
        "elif", "finally", "await", "try", "if", "or", "import", "class",
        "lambda", "True", "raise", "is", "while", "with", "nonlocal",
        "for", "from", "del", "not", "async">>,
      <<"while", "True", "in", "class", "False", "finally", "is", "async",
        "except", "del", "pass", "await", "None", "try", "import",
        "continue", "or", "elif", "as", "nonlocal", "raise", "assert",
        "for", "from", "else", "not", "def", "break", "return", "with",
        "lambda", "yield", "global", "if", "and">>,
      <<"for", "continue", "global", "True", "while", "raise", "finally",
        "try", "if", "or", "False", "lambda", "and", "yield", "is",
        "return", "async", "break", "assert", "else", "nonlocal", "not",
        "await", "del", "from", "class", "pass", "in", "None", "as",
        "except", "elif", "def", "import", "with">>
    >>

\* the number of processes the checked behaviours start in: those started
\* with PYTHONHASHSEED = 0 .. MaxProcesses - 1
MaxProcesses == 2

ProcessOrders == {HashSeedOrders[i] : i \in 1..MaxProcesses}

\* the number of send_chat calls of a behaviour
MaxChats == 2

model_id == "CatLLM-14B-Distill-v1"

\* [mutant of get_status] the number of exchanges for the length
get_status_exchanges(length, flag) ==
    [model |-> model_id, context |-> length \div 2, thinking |-> flag]

\* CatLLM.get_status, lines 823-824: the dict it returns, built from the
\* length and the flag it has read
get_status(length, flag) ==
    [model |-> model_id, context |-> length, thinking |-> flag]

NoStatus == [model |-> "", context |-> 0, thinking |-> FALSE]

\* the thread of the host's callbacks: its place, the arguments of the call
\* of complete, the length get_status has read, and the dict it returned
UiIdle ==
    [pc |-> "idle", line |-> "", code |-> "", pos |-> "", length |-> 0,
     status |-> NoStatus]

\* CatLLM.__init__ and CatCode.__init__: an empty history, the flag down,
\* the keyword set in one of the orders, and one greeting of the pool on
\* display (line 1041)
InitLLM(orders, pool) ==
    /\ context = <<>>
    /\ thinking = FALSE
    /\ kwOrder \in orders
    /\ ui = UiIdle
    /\ suggestions = <<>>
    /\ workers = <<>>
    /\ afterQueue = <<>>
    /\ \E greeting \in pool : chat_display = <<Turn("assistant", greeting)>>

---------------------------------------------------------------------------
(* CatCode.check_completion, on the UI thread, and CatLLM.complete inside  *)
(* it.  The thread sleeps between raising and lowering the flag.           *)

\* lines 1086-1089, with one line in the editor and the cursor in column
\* col of it: the index of the cursor, the text of its line, and the whole
\* text, which a Tk text widget ends with a newline
EditorCall(line, col) ==
    [line |-> line, code |-> line \o "\n", pos |-> "1." \o ToString(col)]

\* lines 1085-1091 and 539: read the editor, enter complete, raise the flag;
\* Calls holds what the reads give
check_completion(Calls) ==
    /\ ui.pc = "idle"
    /\ \E call \in Calls :
            ui' = [UiIdle EXCEPT !.pc = "sleep", !.line = call.line,
                                 !.code = call.code, !.pos = call.pos]
    /\ thinking' = TRUE
    /\ UNCHANGED <<context, kwOrder, suggestions, workers, afterQueue,
                   chat_display, agentVars>>

\* lines 540-554: the sleep, the dispatch, and the flag lowered; an
\* exception of the dispatch ends the callback with the flag still raised
complete_clear_thinking ==
    /\ ui.pc = "sleep"
    /\ IF complete_raises(ui.code, ui.line, ui.pos)
       THEN ui' = [ui EXCEPT !.pc = "raised"] /\ UNCHANGED thinking
       ELSE ui' = [ui EXCEPT !.pc = "return"] /\ thinking' = FALSE
    /\ UNCHANGED <<context, kwOrder, suggestions, workers, afterQueue,
                   chat_display, agentVars>>

\* lines 555 and 1091: complete returns into check_completion's local
complete_return ==
    /\ ui.pc = "return"
    /\ suggestions' = complete(ui.code, ui.line, ui.pos, kwOrder)
    /\ ui' = [ui EXCEPT !.pc = "popup"]
    /\ UNCHANGED <<context, thinking, kwOrder, workers, afterQueue,
                   chat_display, agentVars>>

\* lines 1092-1093: the popup is shown when there is a suggestion, and the
\* callback ends
show_completion_popup ==
    /\ ui.pc = "popup"
    /\ ui' = UiIdle
    /\ suggestions' = <<>>
    /\ UNCHANGED <<context, thinking, kwOrder, workers, afterQueue,
                   chat_display, agentVars>>

\* a status query from the UI thread.  CatLLM.get_status, line 824, holds
\* no lock: it evaluates len(self.context), then self.thinking, and the
\* chat threads run between the two reads.  This step is the first read.
status_query ==
    /\ ui.pc = "idle"
    /\ ui' = [UiIdle EXCEPT !.pc = "flag", !.length = Len(context)]
    /\ UNCHANGED <<context, thinking, kwOrder, suggestions, workers,
                   afterQueue, chat_display, agentVars>>

\* line 824, the second read: the flag as it is now, and the dict returned
status_return ==
    /\ ui.pc = "flag"
    /\ ui' = [ui EXCEPT !.pc = "status", !.status = get_status(ui.length, thinking)]
    /\ UNCHANGED <<context, thinking, kwOrder, suggestions, workers,
                   afterQueue, chat_display, agentVars>>

\* the caller is done with the snapshot
status_done ==
    /\ ui.pc = "status"
    /\ ui' = UiIdle
    /\ UNCHANGED <<context, thinking, kwOrder, suggestions, workers,
                   afterQueue, chat_display, agentVars>>

---------------------------------------------------------------------------
(* The inputs the host hands to chat.                                      *)

\* chat messages with the code context sent along; only the explain rule
\* reads the code
ExplainCodes ==
    {"", "  \n ", "def foo():\n    return 1\n",
     "class A:\n  def  b(self):\n\nimport os\nfrom x import y\nif x:\nfor i in y:\nwhile z:\nreturn 2\ndef late():",
     "\n\ndef a():\n\n\n\n\n\n\n\ndef b():",
     "defcafé():\n class École:\nimportos\nreturn É\nif x:",
     " \n"}

ChatMessages ==
    {"hello", "Hi", "KeyError", "keyerror?", "why this KeyError",
     "TypeError KeyError", "a KEYERROR b", "what is a KeyError",
     "I got a KeyError in my dict", "KeyError and IndexError",
     "KeyError then ImportError", "my KeyError bug", "chip keyerror",
     "indentationerror", "importerror", "nameerror in function", "function",
     "what is a CLASS", "loop", "how to loop", "how do I make a list",
     "how to read a file", "how to write a file", "how to write",
     "how do i sort", "how to dict", "fix", "help me", "bug", "error",
     "make a game", "write hello", "create X", "generate code",
     "write a file", "zzz", "sup", "meow", "they", "exception", "import",
     "dict", "debug", "syntaxerror", "AttributeError: x",
     "generate hello world", "  KeyError  ", "ÉCOLE keyerror",
     " hello ", "KEYERRORÉ", "HOW TO loop",
     "Ünction FUNCTION", "HÉLLO", ""}

ChatInputs ==
    {<<m, "">> : m \in ChatMessages}
    \cup {<<m, c>> : m \in {"explain", "what does it do", "explain this"},
                     c \in ExplainCodes}

\* the inputs of the host under interleaving: for a completion the user
\* has typed p, and the cursor is after it (the key released, or
\* Ctrl+Space) or back at the start of the line (Ctrl+Space)
HostCalls == {EditorCall("p", col) : col \in 0..1}
\* the user types the messages of HostScript in turn, or presses Enter on
\* a blank entry
HostScript == <<"KeyError", "how to loop">>
HostMessages == {HostScript[(Len(workers) % Len(HostScript)) + 1], "  "}
\* for a chat the editor is empty: a Tk text widget then holds one newline
HostCodes == {"\n"}

\* chat inputs with the empty and the whitespace-only message
ChatCallInputs ==
    ChatInputs \cup {<<"", "">>, <<"   ", "  \n ">>, <<"", "def foo():\n    return 1\n">>,
                     <<"\n", "\n">>}

\* CatLLM._generate_response, computed once for the inputs above and
\* looked up from there; any other input is computed at the call
KnownChatInputs ==
    ChatCallInputs
    \cup {<<Strip(input[1]), input[2]>> : input \in ChatCallInputs}
    \cup {<<Strip(HostScript[i]), code>> : i \in 1..Len(HostScript), code \in HostCodes}

KnownResponses ==
    [input \in KnownChatInputs |-> _generate_response(input[1], input[2])]

ResponsePool(message, code_context) ==
    IF <<message, code_context>> \in KnownChatInputs
    THEN KnownResponses[<<message, code_context>>]
    ELSE _generate_response(message, code_context)

---------------------------------------------------------------------------
(* CatCode.send_chat on the UI thread, and CatLLM.chat on the thread it    *)
(* starts.  Each statement of chat that touches shared state is a step.    *)

\* [mutant of AppendTurn] the history kept within a window of two turns
AppendTurnWindowed(history, turn) ==
    IF Len(history) >= 2 THEN Append(Tail(history), turn) ELSE Append(history, turn)

\* self.context.append(turn), lines 670 and 675
AppendTurn(history, turn) == Append(history, turn)

\* [mutant of UserTurn] the message stored under the assistant's role
UserTurnAsAssistant(message) == Turn("assistant", message)

\* [mutant of UserTurn] the lower-cased message stored
UserTurnLowered(message) == Turn("user", Lower(message))

\* {"role": "user", "content": message}, line 670
UserTurn(message) == Turn("user", message)

\* the thread of a send_chat call; userAt and asstAt record the indexes at
\* which the call appended its turns (0: not yet)
NewWorker(msg, code) ==
    [pc |-> "start", msg |-> msg, code |-> code, resp |-> "",
     userAt |-> 0, asstAt |-> 0]

\* lines 1142-1155; an empty message returns at once (line 1144)
send_chat(Messages, Codes) ==
    /\ ui.pc = "idle"
    /\ Len(workers) < MaxChats
    /\ \E raw \in Messages, code \in Codes :
          LET msg == Strip(raw)
          IN  IF msg = ""
              THEN UNCHANGED <<chat_display, workers>>
              ELSE /\ chat_display' = Append(chat_display, Turn("user", msg))
                   /\ workers' = Append(workers, NewWorker(msg, code))
    /\ UNCHANGED <<context, thinking, kwOrder, ui, suggestions, afterQueue,
                   agentVars>>

\* a direct call of CatLLM.chat(message, code_context) on a thread of its
\* own, the message passed as it is
call_chat(Inputs) ==
    /\ ui.pc = "idle"
    /\ workers = <<>>
    /\ \E input \in Inputs : workers' = <<NewWorker(input[1], input[2])>>
    /\ UNCHANGED <<context, thinking, kwOrder, ui, suggestions, afterQueue,
                   chat_display, agentVars>>

\* line 669
chat_set_thinking(w) ==
    /\ workers[w].pc = "start"
    /\ thinking' = TRUE
    /\ workers' = [workers EXCEPT ![w].pc = "user"]
    /\ UNCHANGED <<context, kwOrder, ui, suggestions, afterQueue,
                   chat_display, agentVars>>

\* line 670
chat_append_user(w) ==
    /\ workers[w].pc = "user"
    /\ context' = AppendTurn(context, UserTurn(workers[w].msg))
    /\ workers' = [workers EXCEPT ![w].pc = "sleep",
                                  ![w].userAt = Len(context) + 1]
    /\ UNCHANGED <<thinking, kwOrder, ui, suggestions, afterQueue,
                   chat_display, agentVars>>

\* lines 671-675: the sleep, the response, and the assistant turn; with
\* no response to choose from (random.choice on an empty pool) the thread
\* ends in the exception
chat_append_assistant(w) ==
    /\ workers[w].pc = "sleep"
    /\ LET pool == ResponsePool(workers[w].msg, workers[w].code)
       IN  IF pool = {}
           THEN /\ workers' = [workers EXCEPT ![w].pc = "raised"]
                /\ UNCHANGED context
           ELSE \E response \in pool :
                  /\ context' = AppendTurn(context, Turn("assistant", response))
                  /\ workers' = [workers EXCEPT ![w].pc = "clear",
                                                ![w].resp = response,
                                                ![w].asstAt = Len(context) + 1]
    /\ UNCHANGED <<thinking, kwOrder, ui, suggestions, afterQueue,
                   chat_display, agentVars>>

\* [mutant of chat_clear_thinking] the call goes on to its return without
\* lowering the flag
chat_clear_thinking_skipped(w) ==
    /\ workers[w].pc = "clear"
    /\ workers' = [workers EXCEPT ![w].pc = "return"]
    /\ UNCHANGED <<context, thinking, kwOrder, ui, suggestions, afterQueue,
                   chat_display, agentVars>>

\* line 676
chat_clear_thinking(w) ==
    /\ workers[w].pc = "clear"
    /\ thinking' = FALSE
    /\ workers' = [workers EXCEPT ![w].pc = "return"]
    /\ UNCHANGED <<context, kwOrder, ui, suggestions, afterQueue,
                   chat_display, agentVars>>

\* lines 677 and 1152-1153: chat returns and respond schedules the display
chat_return(w) ==
    /\ workers[w].pc = "return"
    /\ afterQueue' = Append(afterQueue, workers[w].resp)
    /\ workers' = [workers EXCEPT ![w].pc = "done"]
    /\ UNCHANGED <<context, thinking, kwOrder, ui, suggestions,
                   chat_display, agentVars>>

\* the callback of line 1153, run by the UI thread: add_chat_message
display_response ==
    /\ ui.pc = "idle"
    /\ afterQueue # <<>>
    /\ chat_display' = Append(chat_display, Turn("assistant", Head(afterQueue)))
    /\ afterQueue' = Tail(afterQueue)
    /\ UNCHANGED <<context, thinking, kwOrder, ui, suggestions, workers,
                   agentVars>>

---------------------------------------------------------------------------
(* RalphAgent (src/##CATSDK.py): the goals, and the run loop.  A step's    *)
(* duration is in milliseconds (the source gives seconds, 2 and 1.5).      *)

GOALS ==
    <<[name |-> "Refactor Authentication Logic",
       steps |-> <<
          [action |-> "chat", msg |-> "Auth logic is spaghetti. Refactoring to JWT."],
          [action |-> "open", file |-> "src/server.py"],
          [action |-> "think", duration_ms |-> 2000],
          [action |-> "edit", content |->
              "\ndef verify_token(token):\n    try:\n        # Decoding JWT payload\n        payload = jwt.decode(token, SECRET, algorithms=['HS256'])\n        return payload\n    except jwt.ExpiredSignatureError:\n        return None\n"],
          [action |-> "terminal", cmd |-> "pytest tests/auth_test.py"],
          [action |-> "chat", msg |-> "Tests passed. Merging."]>>],
      [name |-> "Optimize Rendering Engine",
       steps |-> <<
          [action |-> "chat", msg |-> "FPS is dropping. Need to optimize the render loop."],
          [action |-> "open", file |-> "kernel/boot.c"],
          [action |-> "edit", content |->
              "\nvoid render_frame() {\n    // Use double buffering\n    if (buffer_ready) {\n        swap_buffers();\n    }\n    // Clear V-Sync\n    gpu_sync();\n}\n"],
          [action |-> "terminal", cmd |-> "make build"],
          [action |-> "chat", msg |-> "Kernel rebuilt. Performance increased by 15%."]>>],
      [name |-> "Update Frontend Components",
       steps |-> <<
          [action |-> "chat", msg |-> "The UI looks like 1999. Updating components."],
          [action |-> "open", file |-> "src/App.jsx"],
          [action |-> "think", duration_ms |-> 1500],
          [action |-> "edit", content |->
              "\nconst Dashboard = () => {\n  const [data, setData] = useState(null);\n  useEffect(() => {\n    fetchData().then(d => setData(d));\n  }, []);\n\n  return (\n    <div className=\"dashboard-container\">\n      <Header title=\"RalphOS\" />\n      <Sidebar />\n    </div>\n  );\n};\n"],
          [action |-> "terminal", cmd |-> "npm run build"],
          [action |-> "chat", msg |-> "Build successful. Deploying to edge."]>>],
      [name |-> "Rewrite Memory Allocator",
       steps |-> <<
          [action |-> "chat", msg |-> "Memory leaks detected. Rewriting allocator in Rust."],
          [action |-> "open", file |-> "src/api.rs"],
          [action |-> "edit", content |->
              "\nfn unsafe_allocation(size: usize) -> *mut u8 {\n    // DANGER: Manual memory management\n    unsafe {\n        let layout = Layout::from_size_align(size, 8).unwrap();\n        alloc(layout)\n    }\n}\n"],
          [action |-> "terminal", cmd |-> "cargo check"],
          [action |-> "chat", msg |-> "Borrow checker is happy. I am happy."]>>]>>

THOUGHTS ==
    <<"Compiling shaders...",
      "Rebalancing binary trees...",
      "Ignored a linting error (it was annoying)...",
      "Checking StackOverflow (simulated)...",
      "Drinking virtual coffee...",
      "Centering a div...",
      "Resolving git merge conflict...",
      "Reading documentation...">>

NumGoals == Len(GOALS)

\* random.randint(100, 900), line 304: any integer of the range, both ends
\* included
MinElapsed == 100
MaxElapsed == 900
ElapsedChoices == MinElapsed..MaxElapsed

\* the number of values of the range a checked behaviour draws from:
\* every terminal line stays in the terminal, so a behaviour with k
\* terminal steps has one state for each of the k-tuples of draws
MaxDraws == 2

\* MaxDraws values spread evenly over the range, both ends included
CheckedElapsed ==
    {MinElapsed + (i * (MaxElapsed - MinElapsed)) \div (MaxDraws - 1) :
        i \in 0..(MaxDraws - 1)}

\* the number of passes of the while loop a behaviour may begin
MaxGoalRuns == 5

\* the placeholder body set_file is given, line 290
Placeholder == "# File opened by Ralph\n"

\* TerminalPanel.log and log_raw: what one call inserts
LogLine(message) == "\n$ " \o message
RawLine(message) == "\n" \o message

\* ChatPanel.add_message: what one call inserts
ChatEntry(sender, msg) == "\n[" \o sender \o "]: " \o msg \o "\n"

AgentAt(pc, goal, step, ch) == [pc |-> pc, goal |-> goal, step |-> step, ch |-> ch]

\* the state after RalphIDE.__init__ (lines 132, 188, 238, 249-254, 350)
InitAgent ==
    /\ running = TRUE
    /\ current_goal_idx = 0
    /\ agent = AgentAt("idle", 0, 0, 0)
    /\ editor_text = ""
    /\ tab_label = "No File Open"
    /\ status_bar = "Ralph Agent: IDLE"
    /\ term_text = <<LogLine("Ralph Agent Terminal initialized...")>>
    /\ chat_history = <<ChatEntry("Ralph", "Agent initialized. Ready to vibe code.")>>
    /\ stepsStarted = <<>>
    /\ stepsFinished = 0
    /\ typedAfterStop = 0

CurrentGoal == GOALS[agent.goal + 1]
CurrentStep == CurrentGoal.steps[agent.step]

\* GOALS[self.current_goal_idx % len(GOALS)], line 274
\* [mutant of GoalIndex] the modulus one short: the last goal is never picked
GoalIndexOneShort(idx) == idx % (NumGoals - 1)

GoalIndex(idx) == idx % NumGoals

\* [mutant of AdvanceIndex] the index wrapped when it is advanced
AdvanceIndexWrapped(idx) == (idx + 1) % NumGoals

\* self.current_goal_idx += 1, line 315
AdvanceIndex(idx) == idx + 1

\* [mutant of NextStepIndex] a step skipped
NextStepIndexSkipping(step) == step + 2

\* the for loop of line 278 moves to the next step of the goal
NextStepIndex(step) == step + 1

\* [mutant of LoopContinues] the while loop never tests the flag
LoopContinuesAlways(flag) == TRUE

\* while self.running, line 272
LoopContinues(flag) == flag

\* [mutant of StepContinues] the for loop never tests the flag
StepContinuesAlways(flag) == TRUE

\* if not self.running: break, line 279
StepContinues(flag) == flag

\* [mutant of TypingContinues] the typing loop never tests the flag
TypingContinuesAlways(flag) == TRUE

\* if not self.running: break, line 262
TypingContinues(flag) == flag

\* the external stop signal: self.running = False
stop ==
    /\ running
    /\ running' = FALSE
    /\ UNCHANGED <<current_goal_idx, agent, editor_text, tab_label,
                   status_bar, term_text, chat_history, stepsStarted,
                   stepsFinished, typedAfterStop, llmVars>>

\* lines 256-257 (scheduled by line 351): the thread starts run_loop
start ==
    /\ agent.pc = "idle"
    /\ agent' = AgentAt("while", 0, 0, 0)
    /\ UNCHANGED <<running, current_goal_idx, editor_text, tab_label,
                   status_bar, term_text, chat_history, stepsStarted,
                   stepsFinished, typedAfterStop, llmVars>>

\* line 272: while self.running
run_loop_test ==
    /\ agent.pc = "while"
    /\ IF LoopContinues(running)
       THEN /\ current_goal_idx < MaxGoalRuns
            /\ agent' = AgentAt("pick", 0, 0, 0)
       ELSE agent' = AgentAt("done", 0, 0, 0)
    /\ UNCHANGED <<running, current_goal_idx, editor_text, tab_label,
                   status_bar, term_text, chat_history, stepsStarted,
                   stepsFinished, typedAfterStop, llmVars>>

\* lines 274-275: pick the goal and show its name
pick_goal ==
    /\ agent.pc = "pick"
    /\ agent' = AgentAt("for", GoalIndex(current_goal_idx), 1, 0)
    /\ status_bar' = "Ralph Agent: " \o GOALS[GoalIndex(current_goal_idx) + 1].name
    /\ UNCHANGED <<running, current_goal_idx, editor_text, tab_label,
                   term_text, chat_history, stepsStarted, stepsFinished,
                   typedAfterStop, llmVars>>

\* lines 278-281: the next step of the goal, unless the steps are used up or
\* running is cleared; either way the loop is left for line 314
next_step ==
    /\ agent.pc = "for"
    /\ IF agent.step <= Len(CurrentGoal.steps) /\ StepContinues(running)
       THEN /\ agent' = [agent EXCEPT !.pc = CurrentStep.action]
            /\ stepsStarted' = Append(stepsStarted, <<agent.goal, agent.step>>)
       ELSE /\ agent' = [agent EXCEPT !.pc = "complete"]
            /\ UNCHANGED stepsStarted
    /\ UNCHANGED <<running, current_goal_idx, editor_text, tab_label,
                   status_bar, term_text, chat_history, stepsFinished,
                   typedAfterStop, llmVars>>

\* lines 283-285
step_chat ==
    /\ agent.pc = "chat"
    /\ chat_history' = Append(chat_history, ChatEntry("Ralph", CurrentStep.msg))
    /\ agent' = [agent EXCEPT !.pc = "pause"]
    /\ UNCHANGED <<running, current_goal_idx, editor_text, tab_label,
                   status_bar, term_text, stepsStarted, stepsFinished,
                   typedAfterStop, llmVars>>

\* lines 287-289: the wait and the status line
step_open ==
    /\ agent.pc = "open"
    /\ status_bar' = "Ralph Agent: Opening " \o CurrentStep.file \o "..."
    /\ agent' = [agent EXCEPT !.pc = "set_file"]
    /\ UNCHANGED <<running, current_goal_idx, editor_text, tab_label,
                   term_text, chat_history, stepsStarted, stepsFinished,
                   typedAfterStop, llmVars>>

\* EditorPanel.set_file, line 164: the label of the tab
set_file ==
    /\ agent.pc = "set_file"
    /\ tab_label' = " " \o CurrentStep.file \o " "
    /\ agent' = [agent EXCEPT !.pc = "delete"]
    /\ UNCHANGED <<running, current_goal_idx, editor_text, status_bar,
                   term_text, chat_history, stepsStarted, stepsFinished,
                   typedAfterStop, llmVars>>

\* [mutant of set_file_delete] set_file without its delete: the text of
\* the file before stays
set_file_delete_skipped ==
    /\ agent.pc = "delete"
    /\ agent' = [agent EXCEPT !.pc = "insert"]
    /\ UNCHANGED <<running, current_goal_idx, editor_text, tab_label,
                   status_bar, term_text, chat_history, stepsStarted,
                   stepsFinished, typedAfterStop, llmVars>>

\* EditorPanel.set_file, line 165: text_area.delete("1.0", tk.END)
set_file_delete ==
    /\ agent.pc = "delete"
    /\ editor_text' = ""
    /\ agent' = [agent EXCEPT !.pc = "insert"]
    /\ UNCHANGED <<running, current_goal_idx, tab_label, status_bar,
                   term_text, chat_history, stepsStarted, stepsFinished,
                   typedAfterStop, llmVars>>

\* EditorPanel.set_file, line 166: text_area.insert("1.0", content), the
\* content put before the text the widget holds
set_file_insert ==
    /\ agent.pc = "insert"
    /\ editor_text' = Placeholder \o editor_text
    /\ agent' = [agent EXCEPT !.pc = "log"]
    /\ UNCHANGED <<running, current_goal_idx, tab_label, status_bar,
                   term_text, chat_history, stepsStarted, stepsFinished,
                   typedAfterStop, llmVars>>

\* line 291: the terminal line of the step
step_open_log ==
    /\ agent.pc = "log"
    /\ term_text' = Append(term_text, LogLine("opening " \o CurrentStep.file))
    /\ agent' = [agent EXCEPT !.pc = "pause"]
    /\ UNCHANGED <<running, current_goal_idx, editor_text, tab_label,
                   status_bar, chat_history, stepsStarted, stepsFinished,
                   typedAfterStop, llmVars>>

\* lines 293-295: the edit step enters type_code
step_edit ==
    /\ agent.pc = "edit"
    /\ status_bar' = "Ralph Agent: Writing code..."
    /\ agent' = [agent EXCEPT !.pc = "type", !.ch = 1]
    /\ UNCHANGED <<running, current_goal_idx, editor_text, tab_label,
                   term_text, chat_history, stepsStarted, stepsFinished,
                   typedAfterStop, llmVars>>

\* lines 261-262: the next character, unless the text is used up or running
\* is cleared
type_code_test ==
    /\ agent.pc = "type"
    /\ IF agent.ch <= Len(CurrentStep.content) /\ TypingContinues(running)
       THEN agent' = [agent EXCEPT !.pc = "append"]
       ELSE agent' = [agent EXCEPT !.pc = "pause"]
    /\ UNCHANGED <<running, current_goal_idx, editor_text, tab_label,
                   status_bar, term_text, chat_history, stepsStarted,
                   stepsFinished, typedAfterStop, llmVars>>

\* lines 263-269, with EditorPanel.append_text (lines 169-172)
type_code_append ==
    /\ agent.pc = "append"
    /\ editor_text' = editor_text \o Char(CurrentStep.content, agent.ch)
    /\ typedAfterStop' = IF running THEN typedAfterStop ELSE typedAfterStop + 1
    /\ agent' = [agent EXCEPT !.pc = "type", !.ch = agent.ch + 1]
    /\ UNCHANGED <<running, current_goal_idx, tab_label, status_bar,
                   term_text, chat_history, stepsStarted, stepsFinished,
                   llmVars>>

\* lines 297-298: the status line, before the first wait of the step
step_terminal ==
    /\ agent.pc = "terminal"
    /\ status_bar' = "Ralph Agent: Running commands..."
    /\ agent' = [agent EXCEPT !.pc = "command"]
    /\ UNCHANGED <<running, current_goal_idx, editor_text, tab_label,
                   term_text, chat_history, stepsStarted, stepsFinished,
                   typedAfterStop, llmVars>>

\* lines 299-300: the wait, then the command logged
step_terminal_command ==
    /\ agent.pc = "command"
    /\ term_text' = Append(term_text, LogLine(CurrentStep.cmd))
    /\ agent' = [agent EXCEPT !.pc = "executing"]
    /\ UNCHANGED <<running, current_goal_idx, editor_text, tab_label,
                   status_bar, chat_history, stepsStarted, stepsFinished,
                   typedAfterStop, llmVars>>

\* lines 301-302
step_terminal_executing ==
    /\ agent.pc = "executing"
    /\ term_text' = Append(term_text, RawLine("... Executing ..."))
    /\ agent' = [agent EXCEPT !.pc = "finished"]
    /\ UNCHANGED <<running, current_goal_idx, editor_text, tab_label,
                   status_bar, chat_history, stepsStarted, stepsFinished,
                   typedAfterStop, llmVars>>

\* lines 303-304, the elapsed time drawn among Elapsed
terminal_finished(Elapsed) ==
    /\ agent.pc = "finished"
    /\ \E ms \in Elapsed :
          term_text' = Append(term_text,
                RawLine("Process finished with exit code 0 (" \o ToString(ms) \o "ms)"))
    /\ agent' = [agent EXCEPT !.pc = "pause"]
    /\ UNCHANGED <<running, current_goal_idx, editor_text, tab_label,
                   status_bar, chat_history, stepsStarted, stepsFinished,
                   typedAfterStop, llmVars>>

\* lines 303-304
step_terminal_finished == terminal_finished(ElapsedChoices)

\* lines 306-309
step_think ==
    /\ agent.pc = "think"
    /\ \E i \in 1..Len(THOUGHTS) : status_bar' = "Ralph Agent: " \o THOUGHTS[i]
    /\ agent' = [agent EXCEPT !.pc = "pause"]
    /\ UNCHANGED <<running, current_goal_idx, editor_text, tab_label,
                   term_text, chat_history, stepsStarted, stepsFinished,
                   typedAfterStop, llmVars>>

\* line 311: the pause that ends every step
step_pause ==
    /\ agent.pc = "pause"
    /\ stepsFinished' = stepsFinished + 1
    /\ agent' = [agent EXCEPT !.pc = "for", !.step = NextStepIndex(agent.step),
                                !.ch = 0]
    /\ UNCHANGED <<running, current_goal_idx, editor_text, tab_label,
                   status_bar, term_text, chat_history, stepsStarted,
                   typedAfterStop, llmVars>>

\* line 314
goal_complete ==
    /\ agent.pc = "complete"
    /\ chat_history' = Append(chat_history,
            ChatEntry("Ralph", "Completed: " \o CurrentGoal.name
                                    \o ". Taking a quick break."))
    /\ agent' = [agent EXCEPT !.pc = "advance"]
    /\ UNCHANGED <<running, current_goal_idx, editor_text, tab_label,
                   status_bar, term_text, stepsStarted, stepsFinished,
                   typedAfterStop, llmVars>>

\* lines 315-316
advance ==
    /\ agent.pc = "advance"
    /\ current_goal_idx' = AdvanceIndex(current_goal_idx)
    /\ agent' = AgentAt("while", 0, 0, 0)
    /\ UNCHANGED <<running, editor_text, tab_label, status_bar, term_text,
                   chat_history, stepsStarted, stepsFinished, typedAfterStop,
                   llmVars>>

\* a step of the agent thread, the elapsed times drawn among Elapsed
AgentStepDrawing(Elapsed) ==
    \/ start \/ run_loop_test \/ pick_goal \/ next_step \/ step_chat
    \/ step_open \/ set_file \/ set_file_delete \/ set_file_insert
    \/ step_open_log
    \/ step_edit \/ type_code_test \/ type_code_append
    \/ step_terminal \/ step_terminal_command \/ step_terminal_executing
    \/ terminal_finished(Elapsed)
    \/ step_think \/ step_pause \/ goal_complete \/ advance

AgentStep == AgentStepDrawing(ElapsedChoices)

---------------------------------------------------------------------------
(* The specifications.                                                     *)

\* ---- inputs ----

\* function names for lines of the form def <name>(
FuncNames ==
    {"get", "get_x", "getter", "widget", "forget", "init_get", "get_init",
     "Init_get", "get_setting", "__init__", "initialize", "reset", "set_x",
     "is_ok", "has_x", "load", "save_as", "main", "x", "Get", "GET_ALL", "run"}

DefLine(name) == "def " \o name \o "("

\* prefixes typed after "import": of one module, of two modules whose
\* sorted order is (and is not) the order of the table, of no module, and
\* of no module but of keywords
ImportPrefixes == {"m", "ma", "os", "p", "r", "t", "x", "zz", "i", "e", "s", "T"}

\* current lines with the whitespace and the letters of U+0080..U+00FF and
\* with the control characters str.isspace accepts: as the separator of a
\* trigger, as padding that strip removes, inside a captured name, and as
\* the token the keyword fallback lowers
LatinLines ==
    {"deffoo(", "def get(", "def café(", "def Îload(",
     "classÉcole", "class École(À):", "import os",
     "import é", "fromosimportp", "from ñ import é",
     "ifx", "for éinxs", "whilex", "try: ",
     "withopen", "self.", "É.", "café.", "SELF .",
     "xTr", "x = N", "É", "ÉCOLE", "×", "ß",
     "a×tr", "", " p "}

\* current lines handed to complete: every trigger, with and without
\* padding, near misses of every trigger, and plain tokens
CompletionLines ==
    {DefLine(n) : n \in FuncNames}
    \cup {"  def  " \o n \o "  (  " : n \in FuncNames}
    \cup {"import " \o p : p \in ImportPrefixes \cup {"", "os.path"}}
    \cup {"from " \o m \o " import " \o p :
              m \in {"os", "math", "typing", "foo"}, p \in {"", "p", "s", "L", "zz"}}
    \cup {"", " ", "p", "P", "pr", "x = le", "def foo(x", "def f(\n", "import",
          "import  os", "from os importge", "if ", "if x", "  if x > 1  ",
          "for i in ", "for i in x", "for item  in  items:", "while ",
          "while x", "try:", "try: ", "try:x", "with ", "with open", "print(",
          "print(x", "self.", "SELF.", "foo.bar.", "str. ", "x = self.", "os.",
          "path.", "f.", "dict.", "list.", "# ", "#", "#todo", "class Foo",
          "class Foo(Bar):", "class ", "class", "className", "define", "t",
          "T", "tr", "i", "a b  i", "return", "N", "n", "e", "zzz", "9", "_",
          "a.b", "s", "o"}
    \cup LatinLines

\* ---- the CatCode application: completion on the UI thread, one thread ----
\* ---- per chat message                                                 ----

Workers == 1..Len(workers)

ChatStep(w) ==
    \/ chat_set_thinking(w) \/ chat_append_user(w) \/ chat_append_assistant(w)
    \/ chat_clear_thinking(w) \/ chat_return(w)

\* the state CatCode starts in: the keyword set in the order of its
\* process, and the greeting random.choice draws (line 1041)
Init == InitLLM(KeywordOrders, SeqToSet(greetings)) /\ InitAgent

\* Init in the processes of ProcessOrders, with any of the greetings
InitHost == kwOrder \in ProcessOrders /\ Init

Next ==
    \/ check_completion(HostCalls)
    \/ complete_clear_thinking
    \/ complete_return
    \/ show_completion_popup
    \/ status_query
    \/ status_return
    \/ status_done
    \/ send_chat(HostMessages, HostCodes)
    \/ \E w \in Workers : ChatStep(w)
    \/ display_response

Spec == InitHost /\ [][Next]_vars

\* ---- complete as a function of the current line ----

\* the lines an editor can hold: a line of a Tk text widget has no line
\* break in it
EditorLines == {line \in CompletionLines : ~Contains(line, "\n")}

NextComplete ==
    \/ check_completion({EditorCall(line, Len(line)) : line \in EditorLines})
    \/ complete_clear_thinking
    \/ complete_return
    \/ show_completion_popup


SpecComplete == InitHost /\ [][NextComplete]_vars

\* ---- one chat call, its message and code drawn at the start ----

InitChat ==
    /\ InitAgent
    /\ context = <<>> /\ thinking = FALSE /\ kwOrder \in ProcessOrders
    /\ ui = UiIdle /\ suggestions = <<>> /\ afterQueue = <<>>
    /\ \E input \in ChatInputs, greeting \in SeqToSet(greetings) :
          /\ Strip(input[1]) # ""
          /\ workers = <<NewWorker(Strip(input[1]), input[2])>>
          /\ chat_display = <<Turn("assistant", greeting),
                              Turn("user", Strip(input[1]))>>

NextChat ==
    \/ \E w \in Workers : ChatStep(w)
    \/ display_response

SpecChat == InitChat /\ [][NextChat]_vars

\* ---- direct calls of complete and chat, on every input ----

\* no chat call is in flight
ChatIdle == \A w \in Workers : workers[w].pc = "done"


\* one call at a time
NextCalls ==
    \/ (ChatIdle /\ check_completion({[line |-> line, code |-> "", pos |-> "1.0"] :
                                         line \in CompletionLines}))
    \/ complete_clear_thinking
    \/ complete_return
    \/ show_completion_popup
    \/ call_chat(ChatCallInputs)
    \/ \E w \in Workers : ChatStep(w)

\* CatLLM.__init__, lines 413-424, with no host around it: nothing is on
\* display, and the keyword set is in the order of one of the processes
InitEngine ==
    /\ InitAgent
    /\ context = <<>> /\ thinking = FALSE /\ kwOrder \in ProcessOrders
    /\ ui = UiIdle /\ suggestions = <<>> /\ workers = <<>>
    /\ afterQueue = <<>> /\ chat_display = <<>>

SpecCalls == InitEngine /\ [][NextCalls]_vars

\* the agent of RalphIDE with an external stop request.  RalphIDE holds no
\* CatLLM: no step of the agent reads or writes the variables of the
\* engine, which keep the values given here
InitAgentSpec ==
    /\ InitAgent
    /\ context = <<>> /\ thinking = FALSE /\ kwOrder = HashSeedOrders[1]
    /\ ui = UiIdle /\ suggestions = <<>> /\ workers = <<>>
    /\ afterQueue = <<>> /\ chat_display = <<>>

NextAgent == AgentStepDrawing(CheckedElapsed) \/ stop

SpecAgent == InitAgentSpec /\ [][NextAgent]_vars

\* the agent thread is scheduled as long as it has a step to take
SpecAgentFair == SpecAgent /\ WF_vars(AgentStepDrawing(CheckedElapsed))

\* the agent with no stop request: the button is never pressed and
\* nothing else in the source clears running
NextUnstopped == AgentStepDrawing(CheckedElapsed)

SpecUnstopped ==
    InitAgentSpec /\ [][NextUnstopped]_vars /\ WF_vars(NextUnstopped)

---------------------------------------------------------------------------
(* Properties of the completion engine, checked under SpecComplete.        *)

\* C1: whatever the context, the current line and the cursor position,
\* the sequence complete returns holds at most 8 candidates.
C1_AtMostEightCandidates == Len(suggestions) <= 8

\* a call has returned 8 candidates for a line whose generic fallback had
\* more than 8 to offer
C1_Witness ==
    /\ ui.pc = "popup"
    /\ Len(suggestions) = 8
    /\ Len(_complete_generic(Strip(ui.line), ui.code, kwOrder)) > 8

GetTemplate == "self, key):\n        return self._data.get(key)"

\* the call that has just returned was made on the line "def <name>("
ReturnedForDef(name) == ui.pc = "popup" /\ ui.line = DefLine(name)

FirstCandidateIsGetTemplate == suggestions # <<>> /\ suggestions[1] = GetTemplate

\* C10 as stated: for a current line "def <name>(" whose name contains
\* "get", the first candidate complete returns is the get template.
C10_GetTemplateForGetNames ==
    \A name \in FuncNames :
        ReturnedForDef(name) /\ Contains(name, "get") => FirstCandidateIsGetTemplate

\* C10 amended: for a current line "def <name>(" whose name contains "get"
\* and, in no letter case, "init", the first candidate complete returns is
\* the get template.
C10_GetTemplateForGetNamesWithoutInit ==
    \A name \in FuncNames :
        ReturnedForDef(name) /\ Contains(name, "get") /\ ~Contains(Lower(name), "init")
            => FirstCandidateIsGetTemplate

\* complete has returned the get template for a name that holds both "get"
\* and "set"
C10_Witness ==
    /\ ReturnedForDef("get_setting")
    /\ FirstCandidateIsGetTemplate

---------------------------------------------------------------------------
(* Properties of chat, checked under Spec (C2, C3, C4) and SpecChat (C9).  *)

RECURSIVE SumTurns(_)
\* the turns the chat calls among the first n have appended so far: none
\* before line 670, one between lines 670 and 675, two after line 675
SumTurns(n) ==
    IF n = 0 THEN 0
    ELSE SumTurns(n - 1)
         + (CASE workers[n].pc \in {"start", "user"} -> 0
              [] workers[n].pc = "sleep" -> 1
              [] OTHER -> 2)

\* C2: every chat call appends exactly two turns to the history, first a
\* user turn holding its message, then an assistant turn holding the string
\* the call returns; the turns already there stay as they were.
C2_ChatAppendsUserThenAssistant ==
    /\ Len(context) = SumTurns(Len(workers))
    /\ \A w \in Workers :
          /\ workers[w].pc \in {"start", "user"} =>
                workers[w].userAt = 0 /\ workers[w].asstAt = 0
          /\ workers[w].pc \notin {"start", "user"} =>
                /\ workers[w].userAt \in 1..Len(context)
                /\ context[workers[w].userAt] =
                       [role |-> "user", content |-> workers[w].msg]
          /\ workers[w].pc = "sleep" => workers[w].asstAt = 0
          /\ workers[w].pc \in {"clear", "return", "done"} =>
                /\ workers[w].asstAt \in 1..Len(context)
                /\ workers[w].userAt < workers[w].asstAt
                /\ context[workers[w].asstAt] =
                       [role |-> "assistant", content |-> workers[w].resp]
    /\ \A v, w \in Workers :
          v # w => {workers[v].userAt, workers[v].asstAt}
                       \cap {workers[w].userAt, workers[w].asstAt} \subseteq {0}
    /\ \A i \in 1..Len(afterQueue) :
          \E w \in Workers : workers[w].pc = "done" /\ workers[w].resp = afterQueue[i]

\* a chat call whose message has capital letters has returned, its two
\* turns in the history
C2_Witness ==
    \E w \in Workers :
        /\ workers[w].pc = "done"
        /\ workers[w].msg = "KeyError"
        /\ context[workers[w].userAt] = [role |-> "user", content |-> "KeyError"]
        /\ context[workers[w].asstAt].role = "assistant"

IsPrefix(xs, ys) == Len(xs) <= Len(ys) /\ SubSeq(ys, 1, Len(xs)) = xs

\* C3: the history is append-only: across every step of complete, chat and
\* get_status calls, sequential or overlapping, the history before the
\* step is a prefix of the history after it.
C3_HistoryAppendOnly == [][IsPrefix(context, context')]_vars

\* two overlapping chat calls have appended their four turns
C3_Witness ==
    /\ Len(context) = 4
    /\ context[1].role = "user" /\ context[2].role = "user"

\* C4 as stated: if chat message A is submitted before chat message B,
\* both turns of A come before both turns of B in the history.
C4_TurnsInCallOrder ==
    \A a, b \in Workers :
        a < b /\ workers[b].userAt # 0 =>
            /\ workers[a].asstAt # 0
            /\ workers[a].asstAt < workers[b].userAt

\* the help text of KeyError
KeyErrorGuidance == "Key not in dict. Use \\x60.get(key, default)\\x60."

\* the call of worker w has its response
Responded(w) == workers[w].pc \in {"clear", "return", "done"}

\* C9 as stated: the response to a message that mentions KeyError, in any
\* letter case, contains the KeyError guidance text verbatim.
C9_KeyErrorGuidance ==
    \A w \in Workers :
        Responded(w) /\ Contains(Lower(workers[w].msg), "keyerror")
            => Contains(workers[w].resp, KeyErrorGuidance)

\* the message holds one of the greeting tokens or the name of an error
\* declared before KeyError, in any letter case
NamesGreetingOrEarlierError(message) ==
    \E token \in {"hello", "hi", "hey", "meow", "sup",
                  "syntaxerror", "nameerror", "typeerror", "indexerror"} :
        Contains(Lower(message), token)

\* C9 amended: the response to a message that mentions KeyError, in any
\* letter case, and holds neither a greeting token (hello, hi, hey, meow,
\* sup) nor the name of an error declared before KeyError (SyntaxError,
\* NameError, TypeError, IndexError) is the cat prefix, "KeyError? " and
\* the KeyError guidance text.
C9_KeyErrorGuidanceUnlessEarlierRule ==
    \A w \in Workers :
        Responded(w) /\ Contains(Lower(workers[w].msg), "keyerror")
                     /\ ~NamesGreetingOrEarlierError(workers[w].msg)
            => workers[w].resp = Cat \o " KeyError? " \o KeyErrorGuidance

\* a message that names KeyError and a concept has been answered with the
\* KeyError guidance
C9_Witness ==
    \E w \in Workers :
        /\ workers[w].pc = "done"
        /\ workers[w].msg = "I got a KeyError in my dict"
        /\ Contains(workers[w].resp, KeyErrorGuidance)

---------------------------------------------------------------------------
(* Properties of the agent, checked under SpecAgent (C5, C6, C7) and       *)
(* SpecAgentFair (C8).                                                     *)

\* C5: once running is cleared during an Edit step, at most the one
\* character whose test had already passed is appended to the editor, and
\* none after the typing loop has tested the flag.
C5_AtMostOneCharacterAfterStop ==
    /\ [](typedAfterStop <= 1)
    /\ [][~running /\ agent.pc \in {"type", "append"} =>
            \/ editor_text' = editor_text
            \/ /\ agent.pc = "append"
               /\ typedAfterStop = 0 /\ typedAfterStop' = 1
               /\ editor_text' = editor_text \o Char(CurrentStep.content, agent.ch)]_vars

\* the stop came between the test and the append: one character was typed
\* after it and the loop has ended
C5_Witness ==
    /\ typedAfterStop = 1
    /\ agent.pc = "done"

\* the number of goals whose last step has finished
GoalsRunToCompletion ==
    Cardinality({k \in 1..stepsFinished :
                    stepsStarted[k][2] = Len(GOALS[stepsStarted[k][1] + 1].steps)})

\* the number of completion messages in the chat panel
CompletionMessages ==
    Cardinality({i \in 1..Len(chat_history) :
                    StartsWith(chat_history[i], "\n[Ralph]: Completed: ")})

BetweenGoals == agent.pc \in {"while", "pick", "done"}

\* C6 as stated: after N goals have run to completion the index of the
\* current goal is N modulo the number of goals.
C6_IndexIsCountModuloGoals ==
    running /\ BetweenGoals => current_goal_idx = GoalsRunToCompletion % NumGoals

\* C6 amended: after N goals have run to completion the index of the
\* current goal is N, or N + 1 once a stop request has cut a further pass
\* short, as the index advances at the end of every pass and is never
\* reduced modulo the number of goals; only the lookup is: the goal in
\* progress is the one at the index modulo the number of goals.
C6_IndexCountsPasses ==
    /\ BetweenGoals =>
          /\ current_goal_idx = CompletionMessages
          /\ current_goal_idx - GoalsRunToCompletion \in {0, 1}
          /\ running => current_goal_idx = GoalsRunToCompletion
    /\ agent.pc \notin {"idle", "while", "pick", "done"} =>
          /\ agent.goal = current_goal_idx % NumGoals
          /\ agent.goal \in 0..(NumGoals - 1)

\* every goal has run to completion once and the first goal is in
\* progress again
C6_Witness ==
    /\ running
    /\ current_goal_idx = NumGoals
    /\ GoalsRunToCompletion = NumGoals
    /\ agent.pc = "chat"
    /\ agent.goal = 0

\* the steps of pass p, in their configured order
PassSteps(p) ==
    [i \in 1..Len(GOALS[(p % NumGoals) + 1].steps) |-> <<p % NumGoals, i>>]

RECURSIVE ExpectedSteps(_)
\* the steps of the first n passes, in order
ExpectedSteps(n) ==
    IF n = 0 THEN <<>> ELSE ExpectedSteps(n - 1) \o PassSteps(n - 1)

\* C7: while running stays true, the steps of the current goal start in
\* their configured order, each once, a step starts only when the one
\* before it has finished, and no step of the next goal starts before the
\* last step of the current goal has finished.
C7_StepsInOrder ==
    running =>
        /\ IsPrefix(ExpectedSteps(current_goal_idx), stepsStarted)
        /\ IsPrefix(stepsStarted, ExpectedSteps(current_goal_idx + 1))
        /\ Len(stepsStarted) - stepsFinished \in {0, 1}
        /\ agent.pc \in {"for", "complete", "advance", "while", "pick", "idle"}
              => stepsFinished = Len(stepsStarted)
        /\ agent.pc \in {"complete", "advance"}
              => stepsStarted = ExpectedSteps(current_goal_idx + 1)

\* the first step of the second goal has started, every step of the first
\* goal finished
C7_Witness ==
    /\ running
    /\ Len(stepsStarted) = Len(GOALS[1].steps) + 1
    /\ stepsStarted[Len(stepsStarted)] = <<1, 1>>
    /\ stepsFinished = Len(GOALS[1].steps)

\* C8: once running is cleared the run loop eventually ends, given that the
\* agent thread is scheduled, and after its end the editor, the tab, the
\* status bar, the terminal and the chat panel stay as they are.
C8_StopHonoured ==
    /\ (~running) ~> (agent.pc = "done")
    /\ [][agent.pc = "done" =>
            UNCHANGED <<agent, editor_text, tab_label, status_bar, term_text,
                        chat_history>>]_vars

\* the loop has ended on a stop request that came in the middle of a goal
C8_Witness ==
    /\ ~running
    /\ agent.pc = "done"
    /\ Len(chat_history) > 1
    /\ stepsFinished < Len(ExpectedSteps(current_goal_idx))

---------------------------------------------------------------------------
(* The import trigger, checked under SpecComplete.                         *)

\* the registered module names that start with the prefix
ModulesWithPrefix(prefix) ==
    {name \in SeqToSet(CommonImportNames) : StartsWith(name, prefix)}

\* the call that has just returned was made on the line "import <prefix>"
ReturnedForImport(prefix) == ui.pc = "popup" /\ ui.line = "import " \o prefix

\* C11 as stated: for a current line "import <prefix>" complete returns the
\* registered module names that start with the prefix, in the declaration
\* order of the table, truncated to 8.
C11_ImportCandidatesInTableOrder ==
    \A prefix \in ImportPrefixes :
        ReturnedForImport(prefix) =>
            suggestions = Take(FilterPrefix(CommonImportNames, prefix), 8)

\* C11 amended: for a current line "import <prefix>" with a non-empty
\* prefix that starts some registered module name, complete returns exactly
\* the registered module names that start with the prefix, each once, in
\* ascending alphabetical order, at most 8 of them; with a prefix that
\* starts no registered module name it returns what the generic fallback
\* finds for the line.
C11_ImportCandidatesSorted ==
    \A prefix \in ImportPrefixes :
        ReturnedForImport(prefix) =>
            IF ModulesWithPrefix(prefix) # {}
            THEN /\ SeqToSet(suggestions) = ModulesWithPrefix(prefix)
                 /\ Len(suggestions) = Cardinality(ModulesWithPrefix(prefix))
                 /\ Len(suggestions) <= 8
                 /\ \A i, j \in 1..Len(suggestions) :
                        i < j => StrLess(suggestions[i], suggestions[j])
            ELSE suggestions =
                     Take(_complete_generic("import " \o prefix, ui.code, kwOrder), 8)

\* complete has returned the two modules that start with t, the one
\* declared later first
C11_Witness ==
    /\ ReturnedForImport("t")
    /\ suggestions = <<"tkinter", "typing">>

---------------------------------------------------------------------------
(* The explain rule, checked under SpecChat.                               *)

RECURSIVE NonBlankLines(_)
\* the lines that hold more than whitespace, in their order
NonBlankLines(ls) ==
    IF ls = <<>> THEN <<>>
    ELSE IF Strip(Head(ls)) = "" THEN NonBlankLines(Tail(ls))
    ELSE <<Head(ls)>> \o NonBlankLines(Tail(ls))

\* messages that reach the explain rule: they name no greeting token, no
\* error and no concept
ExplainMessages == {"explain", "what does it do"}

\* the explanation with one bullet for each recognized line among the first
\* 8 non-empty lines of the code
ExplanationOfFirstEightNonEmpty(code) ==
    Cat \o " Here's what I see:\n\n"
        \o ExplainLines(Take(NonBlankLines(SplitLines(code)), 8))
        \o "\nAsk me about any part! " \o Cat

\* C12 as stated: the answer to an explain message has one bullet for each
\* recognized line among the first 8 non-empty lines of the code context,
\* in line order, and none for a later line; for a blank code context it
\* is the empty-input notice.
C12_ExplainFirstEightNonEmptyLines ==
    \A w \in Workers :
        Responded(w) /\ workers[w].msg \in ExplainMessages =>
            workers[w].resp =
                IF Strip(workers[w].code) = ""
                THEN Cat \o " Paste some code and I'll explain it!"
                ELSE ExplanationOfFirstEightNonEmpty(workers[w].code)

---------------------------------------------------------------------------
(* Totality of complete and chat, checked under SpecCalls.                 *)

\* C13: complete and chat return a value for every string input, the empty
\* string, a whitespace-only line and a blank code context included: no
\* call ends in an exception, complete returns a sequence of at most 8
\* candidates and chat a response string.
C13_CallsAreTotal ==
    /\ ui.pc # "raised"
    /\ ui.pc = "sleep" => ~complete_raises(ui.code, ui.line, ui.pos)
    /\ ui.pc = "popup" => Len(suggestions) \in 0..8
    /\ \A w \in Workers :
          /\ workers[w].pc # "raised"
          /\ workers[w].pc = "sleep" =>
                _generate_response(workers[w].msg, workers[w].code) # {}
          /\ Responded(w) => Len(workers[w].resp) > 0

\* chat has returned for the empty message and complete for a
\* whitespace-only line and an empty code context
C13_Witness ==
    /\ ui.pc = "popup" /\ ui.line = " " /\ ui.code = ""
    /\ Len(suggestions) = 8
    /\ \E w \in Workers :
          /\ workers[w].pc = "done"
          /\ workers[w].msg = "" /\ workers[w].code = ""
          /\ workers[w].resp \in SeqToSet(FallbackResponses)

---------------------------------------------------------------------------
(* Frame conditions of the engine, checked under Spec.                     *)

\* the step is one of a chat call appending a turn
ChatAppends ==
    \E w \in Workers :
        /\ workers[w].pc \in {"user", "sleep"}
        /\ workers'[w].pc # workers[w].pc

\* C14: only chat changes the history; get_status reads the length of
\* the history and the thinking flag, returns them with the model id, and
\* changes no state of the engine; the steps of complete leave the history
\* as it is.
C14_OnlyChatMutatesHistory ==
    [][/\ context' # context => ChatAppends
       /\ ui.pc = "idle" /\ ui'.pc = "flag" =>
             /\ ui'.length = Len(context)
             /\ UNCHANGED <<context, thinking, kwOrder>>
       /\ ui.pc = "flag" /\ ui'.pc = "status" =>
             /\ ui'.status = [model |-> "CatLLM-14B-Distill-v1",
                              context |-> ui.length,
                              thinking |-> thinking]
             /\ UNCHANGED <<context, thinking, kwOrder>>
       /\ ui.pc \in {"sleep", "return", "popup"} /\ ui' # ui =>
             context' = context]_vars

\* get_status has returned after a chat call: two turns, the flag down
C14_Witness ==
    /\ ui.pc = "status"
    /\ Len(context) = 2
    /\ ui.status = [model |-> "CatLLM-14B-Distill-v1", context |-> 2, thinking |-> FALSE]

---------------------------------------------------------------------------
(* The threads of the hosts: C15 under Spec, C16 under SpecAgent.          *)

\* C15 as stated: the simulated-latency sleep of the engine never runs on
\* the foreground (UI) thread.
C15_ForegroundNeverSleeps == ui.pc # "sleep"

\* the panels of RalphIDE: the state of its Tk widgets
AgentPanels == <<editor_text, tab_label, status_bar, term_text, chat_history>>

\* C16 as stated: no step of a background worker changes the state of the
\* UI; in RalphIDE, no step of the agent thread changes a panel.
C16_WorkersNeverTouchPanels ==
    [][AgentPanels' # AgentPanels => agent' = agent]_vars

---------------------------------------------------------------------------
(* The goal loop without a stop request: C17 under SpecUnstopped.  The     *)
(* index, the terminal and the chat of the agent grow with every pass, so  *)
(* the loop is followed for MaxGoalRuns passes, and the recurrence is      *)
(* stated of every pass and every round that fit in them.                  *)

\* the number of goals started among the first n steps started: a goal
\* starts with its first step
GoalStarts(n) == Cardinality({j \in 1..n : stepsStarted[j][2] = 1})

\* the number of goals started so far
TotalStarts == GoalStarts(Len(stepsStarted))

\* the step started last is the first step of the goal at index g
JustStarted(g) ==
    /\ stepsStarted # <<>>
    /\ stepsStarted[Len(stepsStarted)] = <<g, 1>>

\* C17: without a stop request the loop does not end, the k-th goal
\* started (k = 0, 1, ...) is the goal at index k modulo the number of
\* goals, and the loop goes on starting goals for ever: whatever the
\* number k of goals started so far, one more goal is started later, the
\* goal at index k modulo the number of goals, so that each goal is
\* started again and again.
C17_GoalsCycleForever ==
    /\ [](running /\ agent.pc # "done")
    /\ [](\A i \in 1..Len(stepsStarted) :
            stepsStarted[i][2] = 1 =>
                stepsStarted[i][1] = GoalStarts(i - 1) % NumGoals)
    /\ \A k \in 0..(MaxGoalRuns - 1) :
          (TotalStarts = k)
              ~> (TotalStarts = k + 1 /\ JustStarted(k % NumGoals))

\* every goal has been started once and the first goal a second time, no
\* stop requested
C17_Witness ==
    /\ running
    /\ GoalStarts(Len(stepsStarted)) = NumGoals + 1
    /\ stepsStarted[Len(stepsStarted)] = <<0, 1>>

---------------------------------------------------------------------------
(* The stop request and the goal in progress: C18 and C19 under SpecAgent. *)

\* C18 as stated: a completion message is emitted and the index advanced
\* only after the last step of the goal has been executed, so a goal cut
\* short by the stop flag gives neither: there are never more completion
\* messages, or a higher index, than goals whose last step has finished.
C18_CompletionOnlyAfterLastStep ==
    /\ CompletionMessages <= GoalsRunToCompletion
    /\ current_goal_idx <= GoalsRunToCompletion

\* C19: once running is cleared no further step starts, in the current
\* goal or in a later one: the step in progress, whose test came before
\* the stop, is the last, and at most that one step finishes.
C19_NoStepStartsAfterStop ==
    [][~running =>
          /\ stepsStarted' = stepsStarted
          /\ stepsFinished' \in {stepsFinished, Len(stepsStarted)}]_vars

\* the stop came during the second step of the first goal: that step has
\* finished, no other has started, and the loop has ended
C19_Witness ==
    /\ ~running
    /\ agent.pc = "done"
    /\ stepsStarted = <<<<0, 1>>, <<0, 2>>>>
    /\ stepsFinished = 2
    /\ editor_text # ""

---------------------------------------------------------------------------
(* The thinking flag under overlapping calls: C20 under Spec.              *)

\* a call is between the statement that raises the flag and the one that
\* lowers it
CallInFlight ==
    \/ ui.pc = "sleep"
    \/ \E w \in Workers : workers[w].pc \in {"user", "sleep", "clear"}

\* C20 as stated: the thinking flag is true in exactly the states where a
\* complete or chat call is in flight, overlapping calls included.
C20_ThinkingIffCallInFlight == thinking <=> CallInFlight


---------------------------------------------------------------------------
(* The dispatch of complete and its fallback, checked under SpecComplete.  *)

\* a trigger matches the trimmed line of the call
TriggerMatches(line) == Matching(Strip(line)) # {}

\* what the handler of the matching trigger yields for the trimmed line
MatchedHandlerCandidates(line, code) ==
    LET k == FirstMatch(Strip(line))
    IN  Handler(k, MatchPattern(k, Strip(line)), code)

\* what the generic fallback yields for the trimmed line
GenericCandidates(line, code) == _complete_generic(Strip(line), code, kwOrder)

\* C22 as stated: when some trigger matches the trimmed line, complete
\* returns exactly the matched handler's candidates truncated to 8, also
\* when the handler yields none; the generic fallback is used only when no
\* trigger matches.
C22_HandlerResultAlsoWhenEmpty ==
    ui.pc = "popup" =>
        IF TriggerMatches(ui.line)
        THEN suggestions = Take(MatchedHandlerCandidates(ui.line, ui.code), 8)
        ELSE suggestions = Take(GenericCandidates(ui.line, ui.code), 8)

\* C22 amended: when some trigger matches the trimmed line and its handler
\* yields at least one candidate, complete returns exactly the handler's
\* candidates truncated to 8; when no trigger matches, or the matched
\* handler yields no candidate, it returns the generic fallback's
\* candidates truncated to 8.
C22_HandlerResultUnlessEmpty ==
    ui.pc = "popup" =>
        IF TriggerMatches(ui.line)
               /\ MatchedHandlerCandidates(ui.line, ui.code) # <<>>
        THEN suggestions = Take(MatchedHandlerCandidates(ui.line, ui.code), 8)
        ELSE suggestions = Take(GenericCandidates(ui.line, ui.code), 8)

\* complete has returned the generic candidates for a line whose trigger
\* matched and whose handler found nothing
C22_Witness ==
    /\ ui.pc = "popup"
    /\ TriggerMatches(ui.line)
    /\ MatchedHandlerCandidates(ui.line, ui.code) = <<>>
    /\ suggestions # <<>>
    /\ suggestions = Take(GenericCandidates(ui.line, ui.code), 8)

---------------------------------------------------------------------------
(* The generic fallback, checked under SpecComplete.                       *)

\* the last white-space delimited token of the trimmed line, "" without one
LastToken(line) ==
    LET words == Split(Strip(line))
    IN  IF words = <<>> THEN "" ELSE words[Len(words)]

\* the entries of xs that start with the token when both are compared in
\* lower case, in the order of xs
RECURSIVE StartingWithIgnoringCase(_, _)
StartingWithIgnoringCase(xs, t) ==
    IF xs = <<>> THEN <<>>
    ELSE (IF StartsWith(Lower(Head(xs)), Lower(t)) THEN <<Head(xs)>> ELSE <<>>)
            \o StartingWithIgnoringCase(Tail(xs), t)

\* C23: when no trigger matches, the fallback result for the last token t
\* of the line is the first 8 entries of: every keyword that starts with t
\* compared case-insensitively, in the iteration order of the keyword
\* table, followed by every built-in function name that starts with t,
\* each with the invocation marker.
C23_GenericFallbackIgnoresCase ==
    ui.pc = "popup" /\ ~TriggerMatches(ui.line) =>
        suggestions =
            Take(StartingWithIgnoringCase(kwOrder, LastToken(ui.line))
                    \o WithCallMarker(StartingWithIgnoringCase(BuiltinFunctions,
                                                               LastToken(ui.line))),
                 8)

---------------------------------------------------------------------------
(* The order of the chat rules, checked under SpecChat.                    *)

\* the keywords of the rules 1 to 7, as the spec numbers them
RuleKeywords(r) ==
    CASE r = 1 -> {"hello", "hi", "hey", "meow", "sup"}
      [] r = 2 -> {Lower(ErrorNames[i]) : i \in 1..Len(ErrorNames)}
      [] r = 3 -> {"function", "class", "loop", "list", "dict", "exception",
                   "import"}
      [] r = 4 -> {"explain", "what does"}
      [] r = 5 -> {"fix", "help", "error", "bug"}
      [] r = 6 -> {"how to", "how do"}
      [] r = 7 -> {"write", "create", "make", "generate"}

\* a keyword of the rule occurs in the lower-cased message
RuleApplies(r, message) ==
    \E keyword \in RuleKeywords(r) : Contains(Lower(message), keyword)

\* the lowest-numbered rule that applies; 8, the fallback, without one
LowestRule(message) ==
    IF \E r \in 1..7 : RuleApplies(r, message)
    THEN CHOOSE r \in 1..7 :
             RuleApplies(r, message) /\ \A j \in 1..(r - 1) : ~RuleApplies(j, message)
    ELSE 8

\* the responses a rule can give to the message and the code
RuleResponses(r, message, code) ==
    CASE r = 1 -> SeqToSet(greetings)
      [] r = 2 -> {ErrorResponse(ErrorNames[i]) : i \in 1..Len(ErrorNames)}
      [] r = 3 -> {Cat \o " " \o explanations(ConceptNames[i]) :
                      i \in 1..Len(ConceptNames)}
      [] r = 4 -> {_explain_code(code)}
      [] r = 5 -> {_suggest_fix(code)}
      [] r = 6 -> {_how_to(message)}
      [] r = 7 -> {_generate_code(message)}
      [] r = 8 -> SeqToSet(FallbackResponses)

\* C24: the response to every message comes from the lowest-numbered of
\* the rules 1 to 7 (greeting, error name, concept, explain, fix/help,
\* how-to, generate) one of whose keywords occurs in the lower-cased
\* message, and from the fallback pool only when no keyword of the rules
\* 1 to 7 occurs.
C24_FirstRuleWins ==
    \A w \in Workers :
        Responded(w) =>
            workers[w].resp \in RuleResponses(LowestRule(workers[w].msg),
                                              workers[w].msg, workers[w].code)

\* a message that holds keywords of the concept, the how-to and the
\* generate rule has been answered by the concept rule
C24_Witness ==
    \E w \in Workers :
        /\ Responded(w)
        /\ workers[w].msg = "how do I make a list"
        /\ RuleApplies(3, workers[w].msg)
        /\ RuleApplies(6, workers[w].msg)
        /\ RuleApplies(7, workers[w].msg)
        /\ workers[w].resp = Cat \o " " \o explanations("list")

---------------------------------------------------------------------------
(* The snippets of the how-to and the generate rule, checked under         *)
(* SpecChat.                                                               *)

\* the fixed snippet _how_to holds for a secondary keyword
HowToSnippet(keyword) == _how_to("how to " \o keyword)

\* the message asks how to do something
AsksHowTo(message) ==
    Contains(Lower(message), "how to") \/ Contains(Lower(message), "how do")

\* the secondary keyword of the how-to rule in the message is list, dict
\* or loop: the snippet the rule selects is one of their three
SelectsCollectionSnippet(message) ==
    /\ \E keyword \in {"list", "dict", "loop"} : Contains(Lower(message), keyword)
    /\ _how_to(message) \in {HowToSnippet(k) : k \in {"list", "dict", "loop"}}

\* C25: a chat message containing "how to" or "how do" whose secondary
\* keyword is "list", "dict" or "loop" gets the matching fixed snippet
\* (Lists, Dicts or Loops) as its response.
C25_HowToGivesSnippet ==
    \A w \in Workers :
        Responded(w) /\ AsksHowTo(workers[w].msg)
                     /\ SelectsCollectionSnippet(workers[w].msg)
            => workers[w].resp = _how_to(workers[w].msg)

\* the hello-world snippet of _generate_code
HelloWorldSnippet == _generate_code("write hello")

\* the message asks for code to be generated
AsksToGenerate(message) ==
    \E keyword \in {"write", "create", "make", "generate"} :
        Contains(Lower(message), keyword)

\* C26: a chat message containing one of "write", "create", "make",
\* "generate" together with "hello" gets the hello-world snippet as its
\* response.
C26_GenerateHelloGivesSnippet ==
    \A w \in Workers :
        Responded(w) /\ AsksToGenerate(workers[w].msg)
                     /\ Contains(Lower(workers[w].msg), "hello")
            => workers[w].resp = HelloWorldSnippet

---------------------------------------------------------------------------
(* The thinking flag when calls end: C27 under Spec.                       *)

\* a complete or chat call has been entered and has not returned
CallActive ==
    \/ ui.pc \in {"sleep", "return"}
    \/ \E w \in Workers : workers[w].pc \in {"user", "sleep", "clear", "return"}

\* this step is the return of a complete call or of a chat call
CallReturns ==
    \/ ui.pc = "return" /\ ui'.pc = "popup"
    \/ \E w \in Workers : workers[w].pc = "return" /\ workers'[w].pc = "done"

\* C27 as stated: whenever no complete or chat call is in flight the
\* thinking flag is false, and every call, whatever the interleaving with
\* other calls, leaves thinking = false when it returns.
C27_FlagDownWhenIdleAndAtEveryReturn ==
    /\ [](~CallActive => ~thinking)
    /\ [][CallReturns => ~thinking']_vars

\* C27 amended: the thinking flag is true only while some call is between
\* the statement that raises it and the statement that lowers it; so it is
\* false whenever no call is in flight, and false when a call returns
\* unless another call, still in flight, has raised it in between.
C27_FlagUpOnlyWhileSomeCallInFlight == thinking => CallInFlight

\* two chat calls whose turns interleave have both returned, and the flag
\* is down
C27_Witness ==
    /\ ~CallActive
    /\ ~thinking
    /\ \E a, b \in Workers :
          /\ a # b
          /\ workers[a].pc = "done" /\ workers[b].pc = "done"
          /\ workers[a].userAt < workers[b].userAt
          /\ workers[b].userAt < workers[a].asstAt

---------------------------------------------------------------------------
(* The balance of the turns of the history: C28 under Spec.                *)

\* how many turns of the history have the role
TurnsOf(role) == Cardinality({i \in 1..Len(context) : context[i].role = role})

\* the chat calls that have appended their user turn (line 670) and not
\* yet their assistant turn (line 675)
AwaitingAssistantTurn == {w \in Workers : workers[w].pc = "sleep"}

\* a chat call has been entered and has not returned
ChatCallActive ==
    \E w \in Workers : workers[w].pc \in {"user", "sleep", "clear", "return"}

\* C28: in every reachable state the history holds at least as many user
\* turns as assistant turns, the difference being the number of chat calls
\* that have appended their user turn and not yet their assistant turn;
\* whenever no chat call is in flight the length of the history is even.
C28_UserTurnsLeadByPendingCalls ==
    /\ TurnsOf("user") >= TurnsOf("assistant")
    /\ TurnsOf("user") - TurnsOf("assistant") = Cardinality(AwaitingAssistantTurn)
    /\ ~ChatCallActive => Len(context) % 2 = 0

\* two chat calls have appended their user turns and neither its assistant
\* turn
C28_Witness ==
    /\ Cardinality(AwaitingAssistantTurn) = 2
    /\ TurnsOf("user") = 2
    /\ TurnsOf("assistant") = 0

---------------------------------------------------------------------------
(* The text of the editor: C29 under SpecAgent.                            *)

\* the step of a goal with the action (every goal has one open and one
\* edit step)
StepWith(g, action) ==
    GOALS[g + 1].steps[CHOOSE i \in 1..Len(GOALS[g + 1].steps) :
                           GOALS[g + 1].steps[i].action = action]

EditContent(g) == StepWith(g, "edit").content

\* a file has been opened: set_file has replaced the label of the tab
FileOpened == tab_label # "No File Open"

\* the goal whose file the last OpenFile step opened
OpenedGoal ==
    CHOOSE g \in 0..(NumGoals - 1) : tab_label = " " \o StepWith(g, "open").file \o " "

\* the agent thread is inside the steps of a goal
InsideGoal == agent.pc \notin {"idle", "while", "pick", "done"}

\* the steps begun since the last OpenFile step began
SinceLastOpen ==
    LET opens == {i \in 1..Len(stepsStarted) :
                     GOALS[stepsStarted[i][1] + 1].steps[stepsStarted[i][2]].action = "open"}
        last == CHOOSE i \in opens : \A j \in opens : j <= i
    IN  IF opens = {} THEN {}
        ELSE {GOALS[stepsStarted[j][1] + 1].steps[stepsStarted[j][2]].action :
                  j \in (last + 1)..Len(stepsStarted)}

\* the Edit step that followed the last OpenFile ran to its end: the step
\* after it has begun, which a stop during the typing prevents (line 279)
EditFinishedUninterrupted == "terminal" \in SinceLastOpen

\* the editor holds the placeholder and then the first characters of the
\* content, all of them when whole is true
HoldsPlaceholderAndPrefix(content, whole) ==
    LET n == Len(editor_text) - Len(Placeholder)
    IN  /\ n >= 0
        /\ n <= Len(content)
        /\ editor_text = Placeholder \o SubSeq(content, 1, n)
        /\ whole => n = Len(content)

\* set_file has written the label of the tab and not yet inserted the
\* content: the editor holds the text of the file before, then nothing
InsideSetFile == agent.pc \in {"delete", "insert"}

\* C29 as stated: from the first OpenFile step on, the text of the editor
\* is the placeholder body followed by a prefix of the Edit content of the
\* current goal, the whole content once an uninterrupted Edit step has
\* finished; text typed for an earlier goal never remains after the next
\* OpenFile. (Read in its favour, without the states inside set_file: it
\* fails even so.)
C29_EditorHoldsPrefixOfCurrentGoal ==
    FileOpened /\ InsideGoal /\ ~InsideSetFile =>
        HoldsPlaceholderAndPrefix(EditContent(agent.goal), EditFinishedUninterrupted)

\* C29 amended: from the first OpenFile step on, and except between the
\* two writes of set_file (the label of the tab and the insert of the
\* content, the delete between them), the text of the editor is the
\* placeholder body followed by a prefix of the Edit content of the goal
\* whose OpenFile step ran last (the goal the agent is in, or, until the
\* next OpenFile, the goal before it), the whole content once the Edit
\* step that followed that OpenFile has finished uninterrupted; text typed
\* for an earlier goal never remains once the insert of the next OpenFile
\* is done. Between the label and the delete the editor holds the text of
\* the file before, between the delete and the insert it is empty.
C29_EditorHoldsPrefixOfOpenedGoal ==
    /\ FileOpened /\ ~InsideSetFile =>
           HoldsPlaceholderAndPrefix(EditContent(OpenedGoal), EditFinishedUninterrupted)
    /\ agent.pc = "insert" => editor_text = ""

\* the second goal is being typed: the editor holds the placeholder and
\* the first characters of its content, and nothing of the first goal
C29_Witness ==
    /\ current_goal_idx = 1
    /\ agent.pc = "type"
    /\ tab_label = " kernel/boot.c "
    /\ editor_text = Placeholder \o "\nvoid"

---------------------------------------------------------------------------
(* The order of the replies on display: C30 under Spec.                    *)

\* the places of the chat display that show the reply of the call (the
\* first entry of the display is the greeting of the start)
ReplyPlaces(w) ==
    {i \in 2..Len(chat_display) :
        chat_display[i] = Turn("assistant", workers[w].resp)}

\* the reply of the call has been handed over and is on display
ReplyDisplayed(w) == workers[w].pc = "done" /\ ReplyPlaces(w) # {}

\* C30: the chat display shows the assistant replies in the order in which
\* their user messages were submitted: if message A is sent and then
\* message B before the reply to A has arrived, the reply to A is displayed
\* before the reply to B.
C30_RepliesDisplayedInSubmissionOrder ==
    \A a, b \in Workers :
        a < b /\ ReplyDisplayed(b) =>
            /\ ReplyDisplayed(a)
            /\ \E i \in ReplyPlaces(a) : \A j \in ReplyPlaces(b) : i < j
=============================================================================
